---- MODULE Spec2Model ----
(***************************************************************************)
(* Orbuculum trace pipeline: the TPIU frame decoder (Src/tpiuDecoder.c),   *)
(* its callers (Src/itmfifos.c, Src/orbmortem.c) and the post-mortem ring  *)
(* buffer of orbmortem.                                                    *)
(*                                                                         *)
(* Bytes are naturals 0..255.  The 32-bit sync shift register is held as   *)
(* its four bytes.  Times are milliseconds; a struct timeval is *)
(* represented by its value in milliseconds and tv_sec by \div 1000.       *)
(***************************************************************************)
EXTENDS Integers, Sequences, FiniteSets, TLC

(***************************************************************************)
(* Program constants                                                       *)
(***************************************************************************)
\* 0xFFFFFF7F, most significant byte first
SYNCPATTERN == <<255, 255, 255, 127>>
HALFSYNC_HIGH == 127
HALFSYNC_LOW == 255
NO_CHANNEL_CHANGE == 255
TIMEOUT == 3
STAT_SYNC_BYTE == 166
TPIU_PACKET_LEN == 16

(***************************************************************************)
(* Bounds of the model                                                     *)
(***************************************************************************)
\* number of chunks the byte source of SpecTPIU may deliver
MaxChunks == 3
\* the clock advances in steps of TickMs milliseconds until it reaches
\* MaxNowMs
TickMs == 1500
MaxNowMs == 3000
\* number of TPIUDecoderForceSync and TPIUGetPacket calls
MaxCalls == 2
\* bytes the raw input source of SpecRing delivers, frames its TPIU source
\* delivers, and the most units (bytes, or words of TPIU data) one read
\* returns
MaxRead == 11
MaxFrames == 2
MaxBlock == 4
\* hold keys pressed in a run of SpecRing
MaxKeys == 2

VARIABLES
    t,          \* struct TPIUDecoder
    now,        \* wall clock read by gettimeofday, in ms
    pending,    \* bytes the source has delivered and that are not pumped yet
    chunksLeft, \* chunks the source may still deliver
    callsLeft,  \* force_sync and get_packet calls still allowed
    B,          \* every byte pumped so far, in order
    ev,         \* return value of the most recent TPIUPump
    lastOp,     \* the most recent call made on the decoder
    p,          \* the caller's struct TPIUPacket (sequence of [s, d])
    pOk,        \* return value of the most recent TPIUGetPacket
    sinceMark,  \* bytes accepted into the frame since the last sync match
                \* or RxedPacket, half-sync pairs not counted
    prev,       \* the decoder, the clock and the last call as they were
                \* before the most recent call
    forced,     \* TPIUDecoderForceSync has been called
    mark,       \* SpecScratch: the last forced sync, its offset, the bytes
                \* pumped since and the statistics it left
    out,        \* every item the protocol pump has taken out of a packet
    test,       \* the test case the byte stream of SpecFrame was built from
    refStream,  \* the stream in force according to the frame layout
    refPkt      \* the items of the last frame according to the frame layout

tpiuVars == <<t, now, pending, chunksLeft, callsLeft, B, ev,
              lastOp, p, pOk, sinceMark, prev, forced, mark>>

frameVars == <<out, test, refStream, refPkt>>

VARIABLES
    r,          \* struct RunTime of orbmortem: the ring and its flags
    options,    \* struct Options of orbmortem
    src,        \* bytes the input source will still deliver
    sourceOpen, \* sourcefd is open
    etmCalls,   \* the calls the last pass made on the ETM decoder
    dumps,      \* the dumps through the ETM decoder since the start or the
                \* last release: 0, 1, or 2 for more than one
    ringIn,     \* bytes stored into the ring since the start or the last
                \* release, in order
    ringOp,     \* the last step of the main loop
    keysLeft,   \* hold keys still to come
    taken,      \* bytes of the blocks received while not held, since the
                \* start or the last release
    decoded     \* the TPIU items decoded from them

ringVars ==
    <<r, options, src, sourceOpen, etmCalls, dumps, ringIn, ringOp,
      keysLeft, taken, decoded>>

VARIABLES
    fifo,       \* struct itmfifosHandle f: its configuration and open pipes
    fifoCalls,  \* the calls the last itmfifoProtocolPump made, in order
    fifoSrc     \* bytes the source of SpecFifo will still deliver

fifoVars == <<fifo, fifoCalls, fifoSrc>>

VARIABLES
    thread,     \* the fifo threads, one per created channel: their position
                \* and locals
    pipe,       \* the pipe of each channel: what was written and not read
    handleOpen, \* the write end f->c[t].handle has not been closed
    sigPending, \* a signal sent by pthread_kill is pending on the thread
    reader,     \* some process has the output of the channel open to read
    shut,       \* where itmfifoShutdown stands
    permafile,  \* f->permafile
    disp,       \* the dispatcher's writes so far: per channel the messages
                \* the pipe took, those it refused, and what each thread read
    budget      \* messages still to be dispatched, changes of the readers
                \* still to come

sinkVars ==
    <<thread, pipe, handleOpen, sigPending, reader, shut, permafile, disp,
      budget>>

VARIABLES
    fmtIn,      \* a message read by _runFifo, the format of its channel and
                \* what the thread's uninitialised locals happen to hold
    fmtOut      \* what the thread then writes to its output

fmtVars == <<fmtIn, fmtOut>>

VARIABLES
    orbcat,     \* the orbcat process: where main is, its options, the bytes
                \* pumped and the status it exits with
    catBudget   \* reads with data and connection attempts still tried

catVars == <<orbcat, catBudget>>

VARIABLES
    chans,      \* f->c[]: the name and the format configured for each channel
    chanOp      \* the last call on the channel configuration and its result

chanVars == <<chans, chanOp>>

vars == <<tpiuVars, frameVars, ringVars, fifoVars, sinkVars, fmtVars, catVars, chanVars>>

(***************************************************************************)
(* Byte helpers                                                            *)
(***************************************************************************)
Byte == 0..255

\* x | y on bytes
RECURSIVE ByteOr(_, _)
ByteOr(x, y) ==
    IF x = 0 THEN y
    ELSE IF y = 0 THEN x
    ELSE 2 * ByteOr(x \div 2, y \div 2)
         + (IF x % 2 = 1 \/ y % 2 = 1 THEN 1 ELSE 0)

\* bit k of n
Bit(n, k) == (n \div (2 ^ k)) % 2

\* (x << 8) | c on a 32-bit register held as its four bytes, most
\* significant first
ShiftIn8(x, c) == <<x[2], x[3], x[4], c>>

\* struct timeval difference, tv_sec of the result (timersub normalises
\* tv_usec into 0..999999, so tv_sec is the floor of the difference)
timersub_sec(a, b) == (a - b) \div 1000

(***************************************************************************)
(* TPIUDecoderInit on zero-initialised storage (both callers keep the      *)
(* decoder in calloc'ed or static storage)                                 *)
(***************************************************************************)
ZeroStats == [syncCount |-> 0, lostSync |-> 0, packets |-> 0,
              halfSyncCount |-> 0, error |-> 0]

ZeroCommsStats == [pendingCount |-> 0, leds |-> 0, lostFrames |-> 0,
                   totalFrames |-> <<0, 0, 0, 0>>]

\* mutant: the decoder starts out receiving
TPIUDecoderInitRxing ==
    [state |-> "TPIU_RXING",
     syncMonitor |-> <<0, 0, 0, 0>>,
     byteCount |-> 0,
     got_lowbits |-> FALSE,
     rxedPacket |-> [i \in 0..(TPIU_PACKET_LEN - 1) |-> 0],
     currentStream |-> 0,
     lastPacket |-> 0,
     stats |-> ZeroStats,
     commsStats |-> ZeroCommsStats]

TPIUDecoderInit ==
    [state |-> "TPIU_UNSYNCED",
     syncMonitor |-> <<0, 0, 0, 0>>,
     byteCount |-> 0,
     got_lowbits |-> FALSE,
     rxedPacket |-> [i \in 0..(TPIU_PACKET_LEN - 1) |-> 0],
     currentStream |-> 0,
     lastPacket |-> 0,
     stats |-> ZeroStats,
     commsStats |-> ZeroCommsStats]

(***************************************************************************)
(* TPIUDecoderForceSync                                                    *)
(***************************************************************************)
\* mutant: every forced sync is counted
TPIUDecoderForceSyncAlways(d, offset, nowTime) ==
    [d EXCEPT !.stats.syncCount = @ + 1,
              !.state = "TPIU_RXING",
              !.byteCount = offset,
              !.lastPacket = nowTime]

TPIUDecoderForceSync(d, offset, nowTime) ==
    [d EXCEPT !.stats.syncCount =
                  IF d.state = "TPIU_UNSYNCED" THEN @ + 1 ELSE @,
              !.state = "TPIU_RXING",
              !.byteCount = offset,
              !.lastPacket = nowTime]

(***************************************************************************)
(* TPIUGetPacket: the loop over the byte pairs of the frame                *)
(***************************************************************************)
\* mutant: the low bit of an even data byte is not restored
RECURSIVE GetPacketLoopNoLow(_, _, _, _, _, _)
GetPacketLoopNoLow(rx, i, lowbits, cur, delayed, pkt) ==
    IF i >= TPIU_PACKET_LEN
    THEN [currentStream |-> cur, packet |-> pkt]
    ELSE LET isChange == rx[i] % 2 = 1
             delayed1 == IF isChange /\ lowbits % 2 = 1
                         THEN rx[i] \div 2 ELSE delayed
             cur1 == IF isChange /\ lowbits % 2 = 0
                     THEN rx[i] \div 2 ELSE cur
             pkt1 == IF isChange THEN pkt
                     ELSE Append(pkt, [s |-> cur1,
                                       d |-> rx[i]])
             pkt2 == IF i < 14
                     THEN Append(pkt1, [s |-> cur1, d |-> rx[i + 1]])
                     ELSE pkt1
             cur2 == IF delayed1 # NO_CHANNEL_CHANGE THEN delayed1 ELSE cur1
         IN GetPacketLoopNoLow(rx, i + 2, lowbits \div 2, cur2,
                          NO_CHANNEL_CHANGE, pkt2)

\* mutant: the low-bits byte is or-ed in without masking it to one bit
RECURSIVE GetPacketLoopAllLow(_, _, _, _, _, _)
GetPacketLoopAllLow(rx, i, lowbits, cur, delayed, pkt) ==
    IF i >= TPIU_PACKET_LEN
    THEN [currentStream |-> cur, packet |-> pkt]
    ELSE LET isChange == rx[i] % 2 = 1
             delayed1 == IF isChange /\ lowbits % 2 = 1
                         THEN rx[i] \div 2 ELSE delayed
             cur1 == IF isChange /\ lowbits % 2 = 0
                     THEN rx[i] \div 2 ELSE cur
             pkt1 == IF isChange THEN pkt
                     ELSE Append(pkt, [s |-> cur1,
                                       d |-> ByteOr(rx[i], lowbits)])
             pkt2 == IF i < 14
                     THEN Append(pkt1, [s |-> cur1, d |-> rx[i + 1]])
                     ELSE pkt1
             cur2 == IF delayed1 # NO_CHANNEL_CHANGE THEN delayed1 ELSE cur1
         IN GetPacketLoopAllLow(rx, i + 2, lowbits \div 2, cur2,
                          NO_CHANNEL_CHANGE, pkt2)

\* mutant: a delayed stream change is applied at once
RECURSIVE GetPacketLoopEager(_, _, _, _, _, _)
GetPacketLoopEager(rx, i, lowbits, cur, delayed, pkt) ==
    IF i >= TPIU_PACKET_LEN
    THEN [currentStream |-> cur, packet |-> pkt]
    ELSE LET isChange == rx[i] % 2 = 1
             delayed1 == IF isChange /\ lowbits % 2 = 1
                         THEN rx[i] \div 2 ELSE delayed
             cur1 == IF isChange THEN rx[i] \div 2 ELSE cur
             pkt1 == IF isChange THEN pkt
                     ELSE Append(pkt, [s |-> cur1,
                                       d |-> ByteOr(rx[i], lowbits % 2)])
             pkt2 == IF i < 14
                     THEN Append(pkt1, [s |-> cur1, d |-> rx[i + 1]])
                     ELSE pkt1
             cur2 == IF delayed1 # NO_CHANNEL_CHANGE THEN delayed1 ELSE cur1
         IN GetPacketLoopEager(rx, i + 2, lowbits \div 2, cur2,
                          NO_CHANNEL_CHANGE, pkt2)

\* mutant: the second byte of the last pair, the low bits, is stored too
RECURSIVE GetPacketLoopAllPairs(_, _, _, _, _, _)
GetPacketLoopAllPairs(rx, i, lowbits, cur, delayed, pkt) ==
    IF i >= TPIU_PACKET_LEN
    THEN [currentStream |-> cur, packet |-> pkt]
    ELSE LET isChange == rx[i] % 2 = 1
             delayed1 == IF isChange /\ lowbits % 2 = 1
                         THEN rx[i] \div 2 ELSE delayed
             cur1 == IF isChange /\ lowbits % 2 = 0
                     THEN rx[i] \div 2 ELSE cur
             pkt1 == IF isChange THEN pkt
                     ELSE Append(pkt, [s |-> cur1,
                                       d |-> ByteOr(rx[i], lowbits % 2)])
             pkt2 == Append(pkt1, [s |-> cur1, d |-> rx[i + 1]])
             cur2 == IF delayed1 # NO_CHANNEL_CHANGE THEN delayed1 ELSE cur1
         IN GetPacketLoopAllPairs(rx, i + 2, lowbits \div 2, cur2,
                          NO_CHANNEL_CHANGE, pkt2)

RECURSIVE GetPacketLoop(_, _, _, _, _, _)
GetPacketLoop(rx, i, lowbits, cur, delayed, pkt) ==
    IF i >= TPIU_PACKET_LEN
    THEN [currentStream |-> cur, packet |-> pkt]
    ELSE LET isChange == rx[i] % 2 = 1
             delayed1 == IF isChange /\ lowbits % 2 = 1
                         THEN rx[i] \div 2 ELSE delayed
             cur1 == IF isChange /\ lowbits % 2 = 0
                     THEN rx[i] \div 2 ELSE cur
             pkt1 == IF isChange THEN pkt
                     ELSE Append(pkt, [s |-> cur1,
                                       d |-> ByteOr(rx[i], lowbits % 2)])
             pkt2 == IF i < 14
                     THEN Append(pkt1, [s |-> cur1, d |-> rx[i + 1]])
                     ELSE pkt1
             cur2 == IF delayed1 # NO_CHANNEL_CHANGE THEN delayed1 ELSE cur1
         IN GetPacketLoop(rx, i + 2, lowbits \div 2, cur2,
                          NO_CHANNEL_CHANGE, pkt2)

\* returns the decoder, the caller's packet buffer and the result
TPIUGetPacket(d, buf) ==
    IF d.byteCount # 0
    THEN [ok |-> FALSE, t |-> d, p |-> buf]
    ELSE LET res == GetPacketLoop(d.rxedPacket, 0,
                                  d.rxedPacket[TPIU_PACKET_LEN - 1],
                                  d.currentStream, NO_CHANNEL_CHANGE, <<>>)
         IN [ok |-> TRUE,
             t |-> [d EXCEPT !.currentStream = res.currentStream],
             p |-> res.packet]

(***************************************************************************)
(* _decodeCommsStats                                                       *)
(***************************************************************************)
\* mutant: the 16-bit fields are read high byte first
decodeCommsStatsSwapped(d) ==
    [pendingCount |-> d.rxedPacket[1] * 256 + d.rxedPacket[2],
     leds |-> d.rxedPacket[5],
     lostFrames |-> d.rxedPacket[6] * 256 + d.rxedPacket[7],
     totalFrames |-> <<d.rxedPacket[11], d.rxedPacket[10], d.rxedPacket[9],
                       d.rxedPacket[8]>>]

decodeCommsStats(d) ==
    [pendingCount |-> d.rxedPacket[2] * 256 + d.rxedPacket[1],
     leds |-> d.rxedPacket[5],
     lostFrames |-> d.rxedPacket[7] * 256 + d.rxedPacket[6],
     totalFrames |-> <<d.rxedPacket[11], d.rxedPacket[10], d.rxedPacket[9],
                       d.rxedPacket[8]>>]

(***************************************************************************)
(* TPIUPump                                                                *)
(***************************************************************************)
\* mutant: the sync match leaves the 'got low bits' latch as it is
PumpSyncKeepLatch(d, nowTime) ==
    LET ret == IF d.state # "TPIU_UNSYNCED"
             THEN "TPIU_EV_SYNCED" ELSE "TPIU_EV_NEWSYNC"
        d1 == IF d.byteCount = 14 /\ d.rxedPacket[0] = STAT_SYNC_BYTE
              THEN [d EXCEPT !.commsStats = decodeCommsStats(d)]
              ELSE d
    IN [t |-> [d1 EXCEPT !.state = "TPIU_RXING",
                         !.stats.syncCount = @ + 1,
                         !.byteCount = 0,
                         !.lastPacket = nowTime],
        r |-> ret]

\* the sync pattern has just been completed
PumpSync(d, nowTime) ==
    LET ret == IF d.state # "TPIU_UNSYNCED"
             THEN "TPIU_EV_SYNCED" ELSE "TPIU_EV_NEWSYNC"
        d1 == IF d.byteCount = 14 /\ d.rxedPacket[0] = STAT_SYNC_BYTE
              THEN [d EXCEPT !.commsStats = decodeCommsStats(d)]
              ELSE d
    IN [t |-> [d1 EXCEPT !.state = "TPIU_RXING",
                         !.stats.syncCount = @ + 1,
                         !.byteCount = 0,
                         !.got_lowbits = FALSE,
                         !.lastPacket = nowTime],
        r |-> ret]

\* mutant: a frame that took exactly TIMEOUT seconds is still accepted
PumpFrameDoneLate(d, nowTime) ==
    LET diffSec == timersub_sec(nowTime, d.lastPacket)
        d1 == [d EXCEPT !.lastPacket = nowTime, !.byteCount = 0]
    IN IF diffSec <= TIMEOUT
       THEN [t |-> [d1 EXCEPT !.stats.packets = @ + 1],
             r |-> "TPIU_EV_RXEDPACKET"]
       ELSE [t |-> [d1 EXCEPT !.state = "TPIU_UNSYNCED",
                              !.stats.lostSync = @ + 1],
             r |-> "TPIU_EV_UNSYNCED"]

\* mutant: a stale frame starts the statistics afresh
PumpFrameDoneRestart(d, nowTime) ==
    LET diffSec == timersub_sec(nowTime, d.lastPacket)
        d1 == [d EXCEPT !.lastPacket = nowTime, !.byteCount = 0]
    IN IF diffSec < TIMEOUT
       THEN [t |-> [d1 EXCEPT !.stats.packets = @ + 1],
             r |-> "TPIU_EV_RXEDPACKET"]
       ELSE [t |-> [d1 EXCEPT !.state = "TPIU_UNSYNCED",
                              !.stats = [ZeroStats EXCEPT !.lostSync = 1]],
             r |-> "TPIU_EV_UNSYNCED"]

\* mutant: the completed frame leaves byteCount where it is
PumpFrameDoneKeepCount(d, nowTime) ==
    LET diffSec == timersub_sec(nowTime, d.lastPacket)
        d1 == [d EXCEPT !.lastPacket = nowTime]
    IN IF diffSec < TIMEOUT
       THEN [t |-> [d1 EXCEPT !.stats.packets = @ + 1],
             r |-> "TPIU_EV_RXEDPACKET"]
       ELSE [t |-> [d1 EXCEPT !.state = "TPIU_UNSYNCED",
                              !.stats.lostSync = @ + 1],
             r |-> "TPIU_EV_UNSYNCED"]

\* a frame of TPIU_PACKET_LEN bytes has just been completed
PumpFrameDone(d, nowTime) ==
    LET diffSec == timersub_sec(nowTime, d.lastPacket)
        d1 == [d EXCEPT !.lastPacket = nowTime, !.byteCount = 0]
    IN IF diffSec < TIMEOUT
       THEN [t |-> [d1 EXCEPT !.stats.packets = @ + 1],
             r |-> "TPIU_EV_RXEDPACKET"]
       ELSE [t |-> [d1 EXCEPT !.state = "TPIU_UNSYNCED",
                              !.stats.lostSync = @ + 1],
             r |-> "TPIU_EV_UNSYNCED"]

\* mutant: the frame is taken to be complete two bytes early
PumpRxingShort(d, c, nowTime) ==
    IF ~d.got_lowbits
    THEN [t |-> [d EXCEPT !.got_lowbits = TRUE,
                          !.rxedPacket[d.byteCount] = c],
          r |-> "TPIU_EV_NONE"]
    ELSE IF c = HALFSYNC_HIGH /\ d.rxedPacket[d.byteCount] = HALFSYNC_LOW
    THEN [t |-> [d EXCEPT !.got_lowbits = FALSE,
                          !.stats.halfSyncCount = @ + 1],
          r |-> "TPIU_EV_NONE"]
    ELSE LET bc == (d.byteCount + 2) % 256
             d1 == [d EXCEPT !.got_lowbits = FALSE,
                             !.rxedPacket[(d.byteCount + 1) % 256] = c,
                             !.byteCount = bc]
         IN IF bc # TPIU_PACKET_LEN - 2
            THEN [t |-> d1, r |-> "TPIU_EV_RXING"]
            ELSE PumpFrameDone(d1, nowTime)

\* mutant: a half-sync pair is counted and kept in the frame
PumpRxingKeepHalf(d, c, nowTime) ==
    IF ~d.got_lowbits
    THEN [t |-> [d EXCEPT !.got_lowbits = TRUE,
                          !.rxedPacket[d.byteCount] = c],
          r |-> "TPIU_EV_NONE"]
    ELSE LET half == c = HALFSYNC_HIGH
                     /\ d.rxedPacket[d.byteCount] = HALFSYNC_LOW
             bc == (d.byteCount + 2) % 256
             d1 == [d EXCEPT !.got_lowbits = FALSE,
                             !.rxedPacket[(d.byteCount + 1) % 256] = c,
                             !.byteCount = bc,
                             !.stats.halfSyncCount =
                                 IF half THEN @ + 1 ELSE @]
         IN IF bc # TPIU_PACKET_LEN
            THEN [t |-> d1, r |-> IF half THEN "TPIU_EV_NONE"
                                  ELSE "TPIU_EV_RXING"]
            ELSE PumpFrameDone(d1, nowTime)

\* case TPIU_RXING
PumpRxing(d, c, nowTime) ==
    IF ~d.got_lowbits
    THEN [t |-> [d EXCEPT !.got_lowbits = TRUE,
                          !.rxedPacket[d.byteCount] = c],
          r |-> "TPIU_EV_NONE"]
    ELSE IF c = HALFSYNC_HIGH /\ d.rxedPacket[d.byteCount] = HALFSYNC_LOW
    THEN [t |-> [d EXCEPT !.got_lowbits = FALSE,
                          !.stats.halfSyncCount = @ + 1],
          r |-> "TPIU_EV_NONE"]
    ELSE LET bc == (d.byteCount + 2) % 256
             d1 == [d EXCEPT !.got_lowbits = FALSE,
                             !.rxedPacket[(d.byteCount + 1) % 256] = c,
                             !.byteCount = bc]
         IN IF bc # TPIU_PACKET_LEN
            THEN [t |-> d1, r |-> "TPIU_EV_RXING"]
            ELSE PumpFrameDone(d1, nowTime)

TPIUPump(d, c, nowTime) ==
    LET sm == ShiftIn8(d.syncMonitor, c)
        d1 == [d EXCEPT !.syncMonitor = sm]
    IN IF sm = SYNCPATTERN
       THEN PumpSync(d1, nowTime)
       ELSE CASE d1.state = "TPIU_UNSYNCED" ->
                     [t |-> d1, r |-> "TPIU_EV_NONE"]
              [] d1.state = "TPIU_RXING" ->
                     PumpRxing(d1, c, nowTime)
              [] OTHER ->
                     [t |-> [d1 EXCEPT !.stats.error = @ + 1],
                      r |-> "TPIU_EV_ERROR"]

(***************************************************************************)
(* The byte source of SpecTPIU: it delivers chunks, each pumped byte by    *)
(* byte.                                                                   *)
(***************************************************************************)
ChunkSync == <<255, 255, 255, 127>>
ChunkHalf == <<255, 127>>
ChunkOne == <<255>>
\* a frame: data, an immediate and a delayed stream change, the low bits
ChunkFrame == <<166, 16, 5, 32, 48, 49, 64, 80, 7, 96, 112, 113, 128, 144, 2,
                17>>

ChunkLib == {ChunkSync, ChunkHalf, ChunkOne, ChunkFrame}

ForceOffsets == {0, 6}

(***************************************************************************)
(* Initial state: the decoder right after TPIUDecoderInit                  *)
(***************************************************************************)
\* no forced sync is being followed
NoMark == [offset |-> -1, n |-> 0, stats |-> ZeroStats]

InitDecoder ==
    /\ t = TPIUDecoderInit
    /\ now = 0
    /\ B = <<>>
    /\ ev = "TPIU_EV_NONE"
    /\ lastOp = "init"
    /\ p = <<>>
    /\ pOk = FALSE
    /\ sinceMark = 0
    /\ prev = [t |-> TPIUDecoderInit, now |-> 0, op |-> "init"]
    /\ forced = FALSE
    /\ mark = NoMark

NoTest == [kind |-> "none", items |-> <<>>]

InitFrameGhosts ==
    /\ out = <<>>
    /\ refStream = 0
    /\ refPkt = <<>>

\* orbmortem is not running
NoRing ==
    /\ r = [wp |-> 0, rp |-> 0]
    /\ options = [buflen |-> 0]
    /\ src = <<>>
    /\ sourceOpen = FALSE
    /\ etmCalls = <<>>
    /\ dumps = 0
    /\ ringIn = <<>>
    /\ ringOp = "none"
    /\ keysLeft = 0
    /\ taken = <<>>
    /\ decoded = <<>>

\* the fifo server is not running
NoFifo ==
    /\ fifo = [useTPIU |-> FALSE]
    /\ fifoCalls = <<>>
    /\ fifoSrc = <<>>

\* orbcat is not running
NoCat ==
    /\ orbcat = <<>>
    /\ catBudget = <<>>

\* no channel is being configured
NoChan ==
    /\ chans = <<>>
    /\ chanOp = <<>>

\* no message is being formatted
NoFormat ==
    /\ fmtIn = <<>>
    /\ fmtOut = <<>>

\* no fifo thread has been created
NoSink ==
    /\ thread = <<>>
    /\ pipe = <<>>
    /\ handleOpen = <<>>
    /\ sigPending = <<>>
    /\ reader = <<>>
    /\ shut = [pc |-> "none"]
    /\ permafile = FALSE
    /\ disp = <<>>
    /\ budget = [msgs |-> 0, readers |-> 0]

Init ==
    /\ InitDecoder
    /\ NoFifo
    /\ NoSink
    /\ NoFormat
    /\ NoCat
    /\ NoChan
    /\ InitFrameGhosts
    /\ NoRing
    /\ test = NoTest
    /\ pending = <<>>
    /\ chunksLeft = MaxChunks
    /\ callsLeft = MaxCalls

(***************************************************************************)
(* Calls on the decoder                                                    *)
(***************************************************************************)
\* bytes counted since the last sync match or RxedPacket, the two bytes of
\* a discarded half-sync pair taken out again
NextSinceMark(res) ==
    IF res.r \in {"TPIU_EV_SYNCED", "TPIU_EV_NEWSYNC"}
    THEN 0
    ELSE (IF ev = "TPIU_EV_RXEDPACKET" THEN 0 ELSE sinceMark)
         + (IF res.t.stats.halfSyncCount # t.stats.halfSyncCount
            THEN -1 ELSE 1)

\* the chunks whose first byte may be pumped next
Deliverable ==
    IF pending # <<>> THEN {pending}
    ELSE IF chunksLeft > 0 THEN ChunkLib ELSE {}

Pump ==
    \E chunk \in Deliverable :
        LET c == Head(chunk)
            res == TPIUPump(t, c, now)
        IN /\ t' = res.t
           /\ ev' = res.r
           /\ pending' = Tail(chunk)
           /\ chunksLeft' = IF pending = <<>> THEN chunksLeft - 1
                            ELSE chunksLeft
           /\ B' = Append(B, c)
           /\ lastOp' = "pump"
           /\ sinceMark' = NextSinceMark(res)
           /\ prev' = [t |-> t, now |-> now, op |-> lastOp]
           /\ UNCHANGED <<now, callsLeft, p, pOk, forced, mark, frameVars, ringVars, fifoVars, sinkVars, fmtVars, catVars, chanVars>>

GetPacket ==
    /\ pending = <<>>
    /\ callsLeft > 0
    /\ callsLeft' = callsLeft - 1
    /\ LET res == TPIUGetPacket(t, p)
       IN /\ t' = res.t
          /\ p' = res.p
          /\ pOk' = res.ok
    /\ lastOp' = "get_packet"
    /\ prev' = [t |-> t, now |-> now, op |-> lastOp]
    /\ UNCHANGED <<now, pending, chunksLeft, B, ev, sinceMark, forced, mark,
                   frameVars, ringVars, fifoVars, sinkVars, fmtVars, catVars, chanVars>>

ForceSync ==
    /\ pending = <<>>
    /\ callsLeft > 0
    /\ \E offset \in ForceOffsets :
           t' = TPIUDecoderForceSync(t, offset, now)
    /\ callsLeft' = callsLeft - 1
    /\ lastOp' = "force_sync"
    /\ forced' = TRUE
    /\ prev' = [t |-> t, now |-> now, op |-> lastOp]
    /\ UNCHANGED <<now, pending, chunksLeft, B, ev, p, pOk, sinceMark, mark,
                   frameVars, ringVars, fifoVars, sinkVars, fmtVars, catVars, chanVars>>

\* time passes between two calls
Tick ==
    /\ now < MaxNowMs
    /\ now' = now + TickMs
    /\ UNCHANGED <<t, pending, chunksLeft, callsLeft, B, ev, lastOp, p, pOk,
                   sinceMark, prev, forced, mark, frameVars, ringVars, fifoVars, sinkVars, fmtVars, catVars, chanVars>>

Next == Pump \/ GetPacket \/ ForceSync \/ Tick

Spec == Init /\ [][Next]_vars

(***************************************************************************)
(* The decoder under forced syncs at any offset of the frame: where a pump *)
(* writes into rxedPacket.                                                 *)
(***************************************************************************)
MaxScratchChunks == 3
MaxScratchCalls == 1

\* the offsets a caller may pass for a frame of TPIU_PACKET_LEN bytes
ScratchOffsets == 0..(TPIU_PACKET_LEN - 1)

\* the index of rxedPacket that the pump of byte c writes in decoder d, -1
\* when it writes none
WriteIndex(d, c) ==
    IF ShiftIn8(d.syncMonitor, c) = SYNCPATTERN THEN -1
    ELSE IF d.state # "TPIU_RXING" THEN -1
    ELSE IF ~d.got_lowbits THEN d.byteCount
    ELSE IF c = HALFSYNC_HIGH /\ d.byteCount < TPIU_PACKET_LEN
            /\ d.rxedPacket[d.byteCount] = HALFSYNC_LOW THEN -1
    ELSE d.byteCount + 1

\* a pump that writes past the end of rxedPacket: undefined behaviour.  The
\* process is stopped, or the byte lands in what follows the frame and the
\* decoder goes on with the byteCount it has counted up
OverrunOutcomes(d) ==
    {[t |-> d, op |-> "stopped"],
     [t |-> [d EXCEPT !.got_lowbits = ~d.got_lowbits,
                      !.byteCount = IF d.got_lowbits THEN (@ + 2) % 256
                                    ELSE @],
      op |-> "pump_overrun"]}

ScratchOver == lastOp \in {"stopped", "pump_overrun"}

InitScratch ==
    /\ InitDecoder
    /\ NoFifo
    /\ NoSink
    /\ NoFormat
    /\ NoCat
    /\ NoChan
    /\ InitFrameGhosts
    /\ NoRing
    /\ test = NoTest
    /\ pending = <<>>
    /\ chunksLeft = MaxScratchChunks
    /\ callsLeft = MaxScratchCalls

\* TPIUPump on the next byte
PumpScratch ==
    /\ ~ScratchOver
    /\ \E chunk \in Deliverable :
        LET c == Head(chunk)
            res == TPIUPump(t, c, now)
        IN /\ IF WriteIndex(t, c) >= TPIU_PACKET_LEN
              THEN \E o \in OverrunOutcomes(t) :
                       /\ t' = o.t
                       /\ lastOp' = o.op
                       /\ ev' = "TPIU_EV_NONE"
              ELSE /\ t' = res.t
                   /\ lastOp' = "pump"
                   /\ ev' = res.r
           /\ pending' = Tail(chunk)
           /\ chunksLeft' = IF pending = <<>> THEN chunksLeft - 1
                            ELSE chunksLeft
           /\ B' = Append(B, c)
           /\ mark' = IF mark.offset >= 0 THEN [mark EXCEPT !.n = @ + 1]
                      ELSE mark
           /\ prev' = [t |-> t, now |-> now, op |-> lastOp]
           /\ UNCHANGED <<now, callsLeft, p, pOk, sinceMark, forced,
                          frameVars, ringVars, fifoVars, sinkVars, fmtVars,
                          catVars, chanVars>>

\* TPIUDecoderForceSync with any offset of the frame
ForceSyncAt ==
    /\ ~ScratchOver
    /\ callsLeft > 0
    /\ \E offset \in ScratchOffsets :
           /\ t' = TPIUDecoderForceSync(t, offset, now)
           /\ mark' = [offset |-> offset, n |-> 0, stats |-> t'.stats]
    /\ callsLeft' = callsLeft - 1
    /\ lastOp' = "force_sync"
    /\ forced' = TRUE
    /\ prev' = [t |-> t, now |-> now, op |-> lastOp]
    /\ UNCHANGED <<now, pending, chunksLeft, B, ev, p, pOk, sinceMark,
                   frameVars, ringVars, fifoVars, sinkVars, fmtVars,
                   catVars, chanVars>>

NextScratch == PumpScratch \/ ForceSyncAt

SpecScratch == InitScratch /\ [][NextScratch]_vars

(***************************************************************************)
(* The frame layout, position by position (TPIU framing, spec 4.1): what   *)
(* a 16-byte frame f means when stream c0 is in force at its start.        *)
(***************************************************************************)
IsChange(f, i) == i % 2 = 0 /\ f[i] % 2 = 1

\* the stream changes of f that are in force at position q: an immediate one
\* from the byte after it, a delayed one from the second byte after it
ChangesBefore(f, q) ==
    {i \in 0..14 : /\ IsChange(f, i)
                   /\ IF Bit(f[15], i \div 2) = 0 THEN i < q ELSE i + 1 < q}

StreamAt(f, c0, q) ==
    LET cs == ChangesBefore(f, q)
    IN IF cs = {} THEN c0
       ELSE f[CHOOSE i \in cs : \A k \in cs : k <= i] \div 2

\* the data byte that position q of f carries (q is no stream change)
DataAt(f, q) ==
    IF q % 2 = 0 THEN f[q] + Bit(f[15], q \div 2) ELSE f[q]

RECURSIVE RefItemsFrom(_, _, _)
RefItemsFrom(f, c0, q) ==
    IF q > 14 THEN <<>>
    ELSE IF IsChange(f, q) THEN RefItemsFrom(f, c0, q + 1)
    ELSE <<[s |-> StreamAt(f, c0, q), d |-> DataAt(f, q)]>>
         \o RefItemsFrom(f, c0, q + 1)

RefPacket(f, c0) == RefItemsFrom(f, c0, 0)

RefFinal(f, c0) == StreamAt(f, c0, 16)

(***************************************************************************)
(* A frame encoder for the round trip (spec 8): items to one 16-byte       *)
(* frame.  Pair j holds two items of the stream in force, or a stream      *)
(* change byte and one item; the last even byte holds one item or a stream *)
(* change; byte 15 collects the low bits.  exact says that every item was  *)
(* placed and nothing was padded.                                          *)
(***************************************************************************)
ClearLsb(x) == x - (x % 2)

RECURSIVE EncodePairs(_, _, _, _, _, _)
EncodePairs(rest, cur, j, bytes, low, exact) ==
    IF j = 7
    THEN IF rest = <<>>
         THEN [frame |-> bytes \o <<2 * cur + 1, low>>, exact |-> exact]
         ELSE IF rest[1].s = cur
         THEN [frame |-> bytes \o <<ClearLsb(rest[1].d),
                                    low + 128 * (rest[1].d % 2)>>,
               exact |-> exact /\ Len(rest) = 1]
         ELSE [frame |-> bytes \o <<2 * rest[1].s + 1, low>>,
               exact |-> FALSE]
    ELSE IF rest = <<>>
    THEN \* padding: the null stream
         EncodePairs(<<>>, 0, j + 1, bytes \o <<1, 0>>, low, FALSE)
    ELSE LET a == rest[1]
         IN IF a.s # cur
            THEN EncodePairs(Tail(rest), a.s, j + 1,
                             bytes \o <<2 * a.s + 1, a.d>>, low, exact)
            ELSE IF Len(rest) >= 2 /\ rest[2].s = cur
                    /\ Len(rest) - 2 >= 6 - j
            THEN EncodePairs(Tail(Tail(rest)), cur, j + 1,
                             bytes \o <<ClearLsb(a.d), rest[2].d>>,
                             low + (a.d % 2) * (2 ^ j), exact)
            ELSE IF Len(rest) >= 2 /\ rest[2].s # cur
            THEN EncodePairs(Tail(rest), rest[2].s, j + 1,
                             bytes \o <<2 * rest[2].s + 1, a.d>>,
                             low + 2 ^ j, exact)
            ELSE EncodePairs(Tail(rest), cur, j + 1,
                             bytes \o <<2 * cur + 1, a.d>>, low, exact)

EncodeFrame(items, cur) == EncodePairs(items, cur, 0, <<>>, 0, TRUE)

\* a frame that the link would not deliver as 16 bytes: it has a half-sync
\* in a byte pair, or the sync pattern
HasHalfSync(fr) ==
    \E j \in 0..7 : fr[2 * j + 1] = HALFSYNC_LOW /\ fr[2 * j + 2] = HALFSYNC_HIGH

HasSyncPattern(fr) ==
    \E k \in 1..(Len(fr) - 3) : SubSeq(fr, k, k + 3) = SYNCPATTERN

(***************************************************************************)
(* The test cases of SpecFrame                                             *)
(***************************************************************************)
\* item sequences: n items, stream s1 up to item a and s2 after it, data
\* from one of three patterns
ItemLens == {3, 7, 8, 11, 15}
ItemStreams == {0, 1, 127}
SwitchAt == {0, 1, 2, 15}
DataPatterns == {"count", "ones", "half"}

PatternByte(pat, i) ==
    CASE pat = "count" -> 64 + 3 * i
      [] pat = "ones" -> 255
      [] OTHER -> 127

ItemSeq(n, a, s1, s2, pat) ==
    [i \in 1..n |-> [s |-> IF i <= a THEN s1 ELSE s2,
                     d |-> PatternByte(pat, i)]]

\* seven items whose frame holds FF FF FF 7F across its byte pairs
SyncItems ==
    <<[s |-> 0, d |-> 255], [s |-> 127, d |-> 255], [s |-> 63, d |-> 1],
      [s |-> 63, d |-> 2], [s |-> 63, d |-> 3], [s |-> 63, d |-> 4],
      [s |-> 63, d |-> 5]>>

ItemTests ==
    {[kind |-> "items", items |-> ItemSeq(n, a, s1, s2, pat)] :
        n \in ItemLens, a \in SwitchAt, s1 \in ItemStreams,
        s2 \in ItemStreams, pat \in DataPatterns}
    \cup {[kind |-> "items", items |-> SyncItems]}

\* raw frames: bit j of kinds makes the even byte 2j a stream change, lows
\* is byte 15
RawKinds == {0, 1, 4, 128, 129, 255}
RawLows == {0, 1, 4, 128, 133, 255}

RawFrame(kinds, lows) ==
    [i \in 1..16 |->
        LET q == i - 1
        IN IF q = 15 THEN lows
           ELSE IF q % 2 = 1 THEN 8 * q + ((q \div 2) % 2)
           ELSE IF Bit(kinds, q \div 2) = 1
                THEN 2 * (1 + ((q \div 2) % 3)) + 1
           ELSE 8 * q]

RawTests ==
    {[kind |-> "raw", items |-> <<>>, kinds |-> k, lows |-> l, more |-> m] :
        k \in RawKinds, l \in RawLows, m \in BOOLEAN}

\* boundary scenario 1 of spec 8
HalfSyncScenario == <<255, 255, 127, 255, 127, 255, 255, 255, 127>>

\* what the link sends between two sync patterns: a first byte, then
\* payload up to n bytes in all, the last of them hi when there are twelve
StatsFirst == {STAT_SYNC_BYTE, STAT_SYNC_BYTE - 1}
StatsLens == {10, 12}
StatsHigh == {3, 200}
StatsBody(first, n, hi) ==
    [i \in 1..n |-> IF i = 1 THEN first
                    ELSE IF i = 12 THEN hi
                    ELSE 16 * i + (i % 3)]

StatsTests ==
    {[kind |-> "stats", items |-> <<>>, first |-> f, len |-> n, hi |-> h] :
        f \in StatsFirst, n \in StatsLens, h \in StatsHigh}

TestCases ==
    ItemTests \cup RawTests \cup {[kind |-> "halfsync", items |-> <<>>]}
    \cup StatsTests

\* the byte stream of a test case
TestTape(tc) ==
    CASE tc.kind = "items" ->
             ChunkSync \o EncodeFrame(tc.items, 0).frame
      [] tc.kind = "raw" ->
             ChunkSync \o RawFrame(tc.kinds, tc.lows)
             \o (IF tc.more THEN RawFrame(4, 1) ELSE <<>>)
      [] tc.kind = "stats" ->
             ChunkSync \o StatsBody(tc.first, tc.len, tc.hi) \o ChunkSync
             \o RawFrame(4, 1)
      [] OTHER -> HalfSyncScenario

InitFrame ==
    /\ InitDecoder
    /\ NoFifo
    /\ NoSink
    /\ NoFormat
    /\ NoCat
    /\ NoChan
    /\ InitFrameGhosts
    /\ NoRing
    /\ test \in TestCases
    /\ pending = TestTape(test)
    /\ chunksLeft = 0
    /\ callsLeft = 0

(***************************************************************************)
(* _tpiuProtocolPump: pump one byte, take the packet out on RxedPacket     *)
(***************************************************************************)
\* the received frame as a sequence
FrameOf(d) == [i \in 1..TPIU_PACKET_LEN |-> d.rxedPacket[i - 1]]

ProtocolPump ==
    /\ pending # <<>>
    /\ LET c == Head(pending)
           res == TPIUPump(t, c, now)
           got == TPIUGetPacket(res.t, p)
       IN /\ ev' = res.r
          /\ sinceMark' = NextSinceMark(res)
          /\ B' = Append(B, c)
          /\ IF res.r = "TPIU_EV_RXEDPACKET"
             THEN /\ t' = got.t
                  /\ p' = got.p
                  /\ pOk' = got.ok
                  /\ out' = out \o got.p
                  /\ refPkt' = RefPacket(res.t.rxedPacket, refStream)
                  /\ refStream' = RefFinal(res.t.rxedPacket, refStream)
             ELSE /\ t' = res.t
                  /\ UNCHANGED <<p, pOk, out, refPkt, refStream>>
    /\ pending' = Tail(pending)
    /\ lastOp' = "protocol_pump"
    /\ prev' = [t |-> t, now |-> now, op |-> lastOp]
    /\ UNCHANGED <<now, chunksLeft, callsLeft, forced, mark, test, ringVars, fifoVars, sinkVars, fmtVars, catVars, chanVars>>

NextFrame == ProtocolPump

SpecFrame == InitFrame /\ [][NextFrame]_vars

(***************************************************************************)
(* orbmortem: the post-mortem ring (pmBuffer, wp, rp) and the main loop    *)
(* around it                                                               *)
(***************************************************************************)
\* ring capacities; orbmortem takes options.buflen = k * 1024, scaled down
Caps == {3, 8}

\* mutant: the read pointer is advanced without the wrap
RingPushNoWrap(rt, buflen, c) ==
    LET r1 == [rt EXCEPT !.pmBuffer[rt.wp] = c]
        nwp == (rt.wp + 1) % buflen
    IN IF nwp = rt.rp
       THEN IF rt.singleShot
            THEN [r |-> [r1 EXCEPT !.held = TRUE], stored |-> FALSE]
            ELSE [r |-> [r1 EXCEPT !.rp = rt.rp + 1, !.wp = nwp],
                  stored |-> TRUE]
       ELSE [r |-> [r1 EXCEPT !.wp = nwp], stored |-> TRUE]

\* mutant: the single-shot collision stores the byte and advances wp
RingPushSingleAdvance(rt, buflen, c) ==
    LET r1 == [rt EXCEPT !.pmBuffer[rt.wp] = c]
        nwp == (rt.wp + 1) % buflen
    IN IF nwp = rt.rp
       THEN IF rt.singleShot
            THEN [r |-> [r1 EXCEPT !.held = TRUE, !.wp = nwp],
                  stored |-> TRUE]
            ELSE [r |-> [r1 EXCEPT !.rp = (rt.rp + 1) % buflen, !.wp = nwp],
                  stored |-> TRUE]
       ELSE [r |-> [r1 EXCEPT !.wp = nwp], stored |-> TRUE]

\* mutant: the collision leaves the read pointer where it is
RingPushKeepOldest(rt, buflen, c) ==
    LET r1 == [rt EXCEPT !.pmBuffer[rt.wp] = c]
        nwp == (rt.wp + 1) % buflen
    IN IF nwp = rt.rp
       THEN IF rt.singleShot
            THEN [r |-> [r1 EXCEPT !.held = TRUE], stored |-> FALSE]
            ELSE [r |-> [r1 EXCEPT !.wp = nwp], stored |-> TRUE]
       ELSE [r |-> [r1 EXCEPT !.wp = nwp], stored |-> TRUE]

\* mutant: in running mode the push that finds the ring full holds it too
RingPushHoldsOnWrap(rt, buflen, c) ==
    LET r1 == [rt EXCEPT !.pmBuffer[rt.wp] = c]
        nwp == (rt.wp + 1) % buflen
    IN IF nwp = rt.rp
       THEN IF rt.singleShot
            THEN [r |-> [r1 EXCEPT !.held = TRUE], stored |-> FALSE]
            ELSE [r |-> [r1 EXCEPT !.rp = (rt.rp + 1) % buflen, !.wp = nwp,
                                   !.held = TRUE],
                  stored |-> TRUE]
       ELSE [r |-> [r1 EXCEPT !.wp = nwp], stored |-> TRUE]

\* one byte into the ring: the byte is written at wp first; when the next
\* write position would reach rp, single-shot mode holds and returns with
\* wp where it was, running mode drops the oldest byte
RingPush(rt, buflen, c) ==
    LET r1 == [rt EXCEPT !.pmBuffer[rt.wp] = c]
        nwp == (rt.wp + 1) % buflen
    IN IF nwp = rt.rp
       THEN IF rt.singleShot
            THEN [r |-> [r1 EXCEPT !.held = TRUE], stored |-> FALSE]
            ELSE [r |-> [r1 EXCEPT !.rp = (rt.rp + 1) % buflen, !.wp = nwp],
                  stored |-> TRUE]
       ELSE [r |-> [r1 EXCEPT !.wp = nwp], stored |-> TRUE]

\* the accumulator of _processBlock: the run time, the decoder, the bytes
\* stored so far and whether the function has returned
Store(acc, buflen, c) ==
    LET res == RingPush(acc.r, buflen, c)
    IN [acc EXCEPT !.r = res.r,
                   !.stored = IF res.stored THEN Append(@, c) ELSE @,
                   !.done = ~res.stored]

\* the raw path of _processBlock
RECURSIVE RawLoop(_, _, _)
RawLoop(acc, opts, buf) ==
    IF buf = <<>> \/ acc.done THEN acc
    ELSE RawLoop(Store(acc, opts.buflen, Head(buf)), opts, Tail(buf))

\* mutant: the items of every stream are stored
RECURSIVE PacketLoopAll(_, _, _)
PacketLoopAll(acc, opts, pkt) ==
    IF pkt = <<>> \/ acc.done THEN acc
    ELSE PacketLoopAll(
             Store([acc EXCEPT !.r.newTotalBytes = @ + 1],
                   opts.buflen, Head(pkt).d),
             opts, Tail(pkt))

\* the items of one TPIU packet: those of the selected channel are stored
RECURSIVE PacketLoop(_, _, _)
PacketLoop(acc, opts, pkt) ==
    IF pkt = <<>> \/ acc.done THEN acc
    ELSE IF opts.channel = Head(pkt).s
         THEN PacketLoop(
                  Store([acc EXCEPT !.r.newTotalBytes = @ + 1],
                        opts.buflen, Head(pkt).d),
                  opts, Tail(pkt))
         ELSE PacketLoop(acc, opts, Tail(pkt))

\* the TPIU path of _processBlock
RECURSIVE TpiuLoop(_, _, _, _)
TpiuLoop(acc, opts, buf, nowTime) ==
    IF buf = <<>> \/ acc.done THEN acc
    ELSE LET res == TPIUPump(acc.t, Head(buf), nowTime)
         IN IF res.r = "TPIU_EV_RXEDPACKET"
            THEN LET got == TPIUGetPacket(res.t, <<>>)
                     a1 == [acc EXCEPT !.t = got.t]
                 IN TpiuLoop(IF got.ok THEN PacketLoop(a1, opts, got.p)
                             ELSE a1,
                             opts, Tail(buf), nowTime)
            ELSE TpiuLoop([acc EXCEPT !.t = res.t], opts, Tail(buf),
                          nowTime)

processBlock(rt, dec, opts, buf, nowTime) ==
    LET acc == [r |-> rt, t |-> dec, stored |-> <<>>, done |-> FALSE]
    IN IF buf = <<>> THEN acc
       ELSE IF opts.useTPIU THEN TpiuLoop(acc, opts, buf, nowTime)
       ELSE RawLoop([acc EXCEPT !.r.newTotalBytes = @ + Len(buf)], opts,
                    buf)

\* the bytes between rp and wp, oldest first
RingContents(rt, buflen) ==
    LET n == ((rt.wp + buflen) - rt.rp) % buflen
    IN [i \in 1..n |-> rt.pmBuffer[(rt.rp + i - 1) % buflen]]

\* n consecutive cells of pmBuffer
Slice(rt, from, n) == [i \in 1..n |-> rt.pmBuffer[from + i - 1]]

\* the call ETMDecoderPump( &r->i, &r->pmBuffer[from], n, ... )
EtmPump(rt, from, n) ==
    [op |-> "pump", from |-> from, len |-> n, bytes |-> Slice(rt, from, n)]

\* the call ETMDecoderForceSync( &r->i, false )
EtmDesync == [op |-> "force_sync", isSynced |-> FALSE]

\* mutant: a wrapped ring is submitted lower part first
dumpBufferSwapped(rt, opts) ==
    LET bytesAvailable == ((rt.wp + opts.buflen) - rt.rp) % opts.buflen
        sync == IF bytesAvailable = opts.buflen - 1 /\ ~rt.singleShot
                THEN <<EtmDesync>> ELSE <<>>
    IN IF bytesAvailable + rt.rp > opts.buflen
       THEN sync \o <<EtmPump(rt, 0, rt.wp),
                      EtmPump(rt, rt.rp, opts.buflen - rt.rp)>>
       ELSE sync \o <<EtmPump(rt, rt.rp, bytesAvailable)>>

\* mutant: the decoder is desynchronised after the ring has been pumped
dumpBufferSyncLate(rt, opts) ==
    LET bytesAvailable == ((rt.wp + opts.buflen) - rt.rp) % opts.buflen
        sync == IF bytesAvailable = opts.buflen - 1 /\ ~rt.singleShot
                THEN <<EtmDesync>> ELSE <<>>
    IN IF bytesAvailable + rt.rp > opts.buflen
       THEN <<EtmPump(rt, rt.rp, opts.buflen - rt.rp),
              EtmPump(rt, 0, rt.wp)>> \o sync
       ELSE <<EtmPump(rt, rt.rp, bytesAvailable)>> \o sync

\* the calls _dumpBuffer makes on the ETM decoder
dumpBuffer(rt, opts) ==
    LET bytesAvailable == ((rt.wp + opts.buflen) - rt.rp) % opts.buflen
        sync == IF bytesAvailable = opts.buflen - 1 /\ ~rt.singleShot
                THEN <<EtmDesync>> ELSE <<>>
    IN IF bytesAvailable + rt.rp > opts.buflen
       THEN sync \o <<EtmPump(rt, rt.rp, opts.buflen - rt.rp),
                      EtmPump(rt, 0, rt.wp)>>
       ELSE sync \o <<EtmPump(rt, rt.rp, bytesAvailable)>>

\* what the input source of orbmortem delivers: counted bytes on the raw
\* port, a synchronised run of TPIU frames on the TPIU port
RawTape == [i \in 1..MaxRead |-> i - 1]

RECURSIVE Frames(_)
Frames(n) == IF n = 0 THEN <<>> ELSE ChunkFrame \o Frames(n - 1)

TpiuTape == ChunkSync \o Frames(MaxFrames)

\* a read returns up to MaxBlock bytes from the raw port and up to
\* MaxBlock 32-bit words from the TPIU port
ReadUnit == IF options.useTPIU THEN 4 ELSE 1

\* main() up to the main loop: the ring is calloc'ed, the pointers and
\* flags are those of the zeroed static RunTime
InitRing ==
    /\ InitDecoder
    /\ NoFifo
    /\ NoSink
    /\ NoFormat
    /\ NoCat
    /\ NoChan
    /\ InitFrameGhosts
    /\ test = NoTest
    /\ pending = <<>>
    /\ chunksLeft = 0
    /\ callsLeft = 0
    /\ options \in [buflen : Caps, useTPIU : BOOLEAN, channel : {2},
                    file : BOOLEAN]
    /\ \E ss \in BOOLEAN :
           r = [pmBuffer |-> [i \in 0..(options.buflen - 1) |-> 0],
                wp |-> 0, rp |-> 0, held |-> FALSE, singleShot |-> ss,
                newTotalBytes |-> 0, oldTotalHangBytes |-> 0,
                numLines |-> 0]
    /\ src = IF options.useTPIU THEN TpiuTape ELSE RawTape
    /\ sourceOpen = TRUE
    /\ etmCalls = <<>>
    /\ dumps = 0
    /\ ringIn = <<>>
    /\ ringOp = "init"
    /\ keysLeft = MaxKeys
    /\ taken = <<>>
    /\ decoded = <<>>

\* the dumps through the ETM decoder counted when the pass op comes to its
\* end: a release starts the count again
DumpsBefore(op) == IF op = "release" THEN 0 ELSE dumps

\* and after one more
DumpsAfter(op) == IF DumpsBefore(op) = 0 THEN 1 ELSE 2

\* mutant: the dump does not hold the ring
PassTailNoHold(r1, open1, hang, op) ==
    LET r2 == IF hang
              THEN [r1 EXCEPT !.oldTotalHangBytes = r1.newTotalBytes]
              ELSE r1
    IN IF /\ r1.numLines = 0
          /\ \/ options.file /\ ~open1
             \/ /\ hang
                /\ r1.newTotalBytes - r1.oldTotalHangBytes = 0
                /\ r1.wp # r1.rp
       THEN \E symbols \in BOOLEAN, lines \in 0..1 :
              /\ etmCalls' = IF symbols THEN dumpBuffer(r1, options)
                             ELSE <<>>
              /\ dumps' = IF symbols THEN DumpsAfter(op) ELSE DumpsBefore(op)
              /\ r' = [r2 EXCEPT !.numLines = IF symbols THEN lines ELSE 0]
              /\ ringOp' = "dump"
       ELSE /\ etmCalls' = <<>>
            /\ dumps' = DumpsBefore(op)
            /\ r' = r2
            /\ ringOp' = op

\* the end of one pass of the main loop: the dump on a hang or on a file
\* that has been read to its end, then the hang interval
PassTail(r1, open1, hang, op) ==
    LET r2 == IF hang
              THEN [r1 EXCEPT !.oldTotalHangBytes = r1.newTotalBytes]
              ELSE r1
    IN IF /\ r1.numLines = 0
          /\ \/ options.file /\ ~open1
             \/ /\ hang
                /\ r1.newTotalBytes - r1.oldTotalHangBytes = 0
                /\ r1.wp # r1.rp
       THEN \E symbols \in BOOLEAN, lines \in 0..1 :
              /\ etmCalls' = IF symbols THEN dumpBuffer(r1, options)
                             ELSE <<>>
              /\ dumps' = IF symbols THEN DumpsAfter(op) ELSE DumpsBefore(op)
              /\ r' = [r2 EXCEPT !.held = TRUE,
                                 !.numLines = IF symbols THEN lines ELSE 0]
              /\ ringOp' = "dump"
       ELSE /\ etmCalls' = <<>>
            /\ dumps' = DumpsBefore(op)
            /\ r' = r2
            /\ ringOp' = op

\* what the main loop of orbmortem leaves alone
ringFrame ==
    <<pending, chunksLeft, callsLeft, B, ev, lastOp, p, pOk, sinceMark,
      prev, forced, mark, frameVars, options, fifoVars, sinkVars, fmtVars, catVars, chanVars>>

\* the items the TPIU decoder delivers for a run of bytes, a packet taken
\* at each RxedPacket
RECURSIVE DecodeItems(_, _, _)
DecodeItems(dec, buf, nowTime) ==
    IF buf = <<>> THEN <<>>
    ELSE LET res == TPIUPump(dec, Head(buf), nowTime)
         IN IF res.r = "TPIU_EV_RXEDPACKET"
            THEN LET got == TPIUGetPacket(res.t, <<>>)
                 IN (IF got.ok THEN got.p ELSE <<>>)
                    \o DecodeItems(got.t, Tail(buf), nowTime)
            ELSE DecodeItems(res.t, Tail(buf), nowTime)

\* a pass in which the source is readable: the block is read even when
\* held, and processed only when not held
ReadBlock ==
    /\ sourceOpen
    /\ \E k \in 0..MaxBlock :
         /\ k * ReadUnit <= Len(src)
         /\ (options.file /\ k = 0) => src = <<>>
         /\ LET n == k * ReadUnit
                buf == SubSeq(src, 1, n)
                open1 == ~(n = 0 /\ options.file)
                acc == IF r.held
                       THEN [r |-> r, t |-> t, stored |-> <<>>]
                       ELSE processBlock(r, t, options, buf, now)
            IN /\ src' = SubSeq(src, n + 1, Len(src))
               /\ sourceOpen' = open1
               /\ t' = acc.t
               /\ ringIn' = ringIn \o acc.stored
               /\ taken' = IF r.held THEN taken ELSE taken \o buf
               /\ decoded' = IF r.held \/ ~options.useTPIU THEN decoded
                             ELSE decoded \o DecodeItems(t, buf, now)
               /\ PassTail(acc.r, open1, FALSE,
                           IF r.held THEN "read_held"
                           ELSE IF acc.r.held THEN "single_shot_held"
                           ELSE IF acc.stored # <<>> THEN "push"
                           ELSE "read")
    /\ UNCHANGED <<now, keysLeft, ringFrame>>

\* mutant: the release leaves the pointers where they are
holdKeyKeepPointers(rt, opts) ==
    IF opts.file THEN rt
    ELSE IF rt.held
         THEN [rt EXCEPT !.held = FALSE, !.numLines = 0]
         ELSE [rt EXCEPT !.held = TRUE]

\* case SIO_EV_HOLD: the key toggles held, and the release empties the
\* ring and the text buffer; the key does nothing when the input is a file
holdKey(rt, opts) ==
    IF opts.file THEN rt
    ELSE IF rt.held
         THEN [rt EXCEPT !.held = FALSE, !.wp = 0, !.rp = 0, !.numLines = 0]
         ELSE [rt EXCEPT !.held = TRUE]

\* a pass in which the hold key arrives
KeyHold ==
    /\ keysLeft > 0
    /\ keysLeft' = keysLeft - 1
    /\ LET release == ~options.file /\ r.held
           r1 == holdKey(r, options)
       IN /\ ringIn' = IF release THEN <<>> ELSE ringIn
          /\ taken' = IF release THEN <<>> ELSE taken
          /\ decoded' = IF release THEN <<>> ELSE decoded
          /\ PassTail(r1, sourceOpen, FALSE,
                      IF options.file THEN "key_ignored"
                      ELSE IF release THEN "release" ELSE "hold")
    /\ UNCHANGED <<t, now, src, sourceOpen, ringFrame>>

\* a pass in which the hang interval has run out; the clock the TPIU
\* decoder reads stays within its stale timeout
HangCheck ==
    /\ PassTail(r, sourceOpen, TRUE, "tick")
    /\ UNCHANGED <<t, now, src, sourceOpen, ringIn, keysLeft, taken,
                   decoded, ringFrame>>

NextRing == ReadBlock \/ KeyHold \/ HangCheck

SpecRing == InitRing /\ [][NextRing]_vars

(***************************************************************************)
(* orbmortem with reads that fail: read returns -1 and leaves the block    *)
(* buffer as the reads before it left it.                                  *)
(***************************************************************************)
\* uint32_t y = r->rawBlock.fillLevel: the ssize_t is reduced modulo a power
\* of two, so -1 becomes the largest value.  The power is 2^32 in the
\* source; it is 2^30 here, to stay within the integers of the checker
AsUint32(v) == v % (2 ^ 30)

\* what the source has delivered so far
Consumed ==
    LET tape == IF options.useTPIU THEN TpiuTape ELSE RawTape
    IN SubSeq(tape, 1, Len(tape) - Len(src))

\* what the block buffer can hold at its start: the last block a read has
\* stored, zeros when no read has stored any
StaleBlocks ==
    IF Consumed = <<>> THEN {[i \in 1..ReadUnit |-> 0]}
    ELSE {SubSeq(Consumed, Len(Consumed) - k * ReadUnit + 1, Len(Consumed)) :
              k \in {j \in 1..MaxBlock : j * ReadUnit <= Len(Consumed)}}

\* _processBlock with the fillLevel of a failed read: y is not 0, the count
\* is added and the loop goes through the buffer, buf being what it holds
processBlockFailed(rt, dec, opts, buf, nowTime) ==
    LET acc == [r |-> rt, t |-> dec, stored |-> <<>>, done |-> FALSE]
        y == AsUint32(-1)
    IN IF y = 0 THEN acc
       ELSE IF opts.useTPIU THEN TpiuLoop(acc, opts, buf, nowTime)
       ELSE RawLoop([acc EXCEPT !.r.newTotalBytes = @ + y], opts, buf)

RingOver == ringOp = "stopped"

\* a pass in which the read fails.  Held, the block is not processed and
\* the pass goes on.  Otherwise the loop of _processBlock pushes what the
\* buffer holds; it ends when single-shot mode holds the ring, and else
\* runs on past the end of the buffer, undefined behaviour taken here as the
\* process being stopped with the ring as the buffer has left it
\* (the byte counter is kept within the integers of the checker: no failed
\* read is processed once one has been counted)
ReadFails ==
    /\ ~RingOver
    /\ sourceOpen
    /\ r.newTotalBytes < AsUint32(-1)
    /\ \E stale \in StaleBlocks :
         LET open1 == ~options.file
             acc == processBlockFailed(r, t, options, stale, now)
         IN /\ sourceOpen' = open1
            /\ IF r.held
               THEN /\ PassTail(r, open1, FALSE, "read_failed_held")
                    /\ UNCHANGED <<t, ringIn, taken, decoded>>
               ELSE /\ t' = acc.t
                    /\ ringIn' = ringIn \o acc.stored
                    /\ taken' = taken \o stale
                    /\ decoded' = IF options.useTPIU
                                  THEN decoded \o DecodeItems(t, stale, now)
                                  ELSE decoded
                    /\ IF acc.r.held
                       THEN PassTail(acc.r, open1, FALSE, "single_shot_held")
                       ELSE /\ r' = acc.r
                            /\ etmCalls' = <<>>
                            /\ dumps' = dumps
                            /\ ringOp' = "stopped"
    /\ UNCHANGED <<src, now, keysLeft, ringFrame>>

ReadBlockOn == ~RingOver /\ ReadBlock

KeyHoldOn == ~RingOver /\ KeyHold

NextRingErr == ReadBlockOn \/ ReadFails \/ KeyHoldOn

SpecRingErr == InitRing /\ [][NextRingErr]_vars

(***************************************************************************)
(* itmfifos: the dispatcher behind itmfifoProtocolPump.  The ITM decoder   *)
(* is a separate module; what the dispatcher does is recorded as the calls *)
(* it makes, on that decoder and on its sinks.                             *)
(***************************************************************************)
NUM_CHANNELS == 32
\* the hardware fifo sits after the software ones
HW_CHANNEL == NUM_CHANNELS
\* the software channel reserved for the filewriter
FW_CHANNEL == 29

\* enum MSGType, in the order of the handler table
MsgTypes ==
    {"MSG_UNKNOWN", "MSG_RESERVED", "MSG_ERROR", "MSG_NONE", "MSG_SOFTWARE",
     "MSG_NISYNC", "MSG_OSW", "MSG_DATA_ACCESS_WP", "MSG_DATA_RWWP",
     "MSG_PC_SAMPLE", "MSG_DWT_EVENT", "MSG_EXCEPTION", "MSG_TS"}

\* the return values of ITMPump that _itmPumpProcess tells apart
ItmEvents ==
    {"ITM_EV_NONE", "ITM_EV_UNSYNCED", "ITM_EV_SYNCED", "ITM_EV_OVERFLOW",
     "ITM_EV_ERROR", "ITM_EV_PACKET_RXED"}

\* the table h of _itmPumpProcess: the handler of each message type
handlers ==
    [m \in MsgTypes |->
        CASE m = "MSG_SOFTWARE" -> "_handleSW"
          [] m = "MSG_NISYNC" -> "_handleNISYNC"
          [] m = "MSG_OSW" -> "_handleDataOffsetWP"
          [] m = "MSG_DATA_ACCESS_WP" -> "_handleDataAccessWP"
          [] m = "MSG_DATA_RWWP" -> "_handleDataRWWP"
          [] m = "MSG_PC_SAMPLE" -> "_handlePCSample"
          [] m = "MSG_DWT_EVENT" -> "_handleDWTEvent"
          [] m = "MSG_EXCEPTION" -> "_handleException"
          [] m = "MSG_TS" -> "_handleTS"
          [] OTHER -> "NULL"]

\* source addresses a software message may carry: an ordinary channel, the
\* filewriter channel, the last software channel and one past it
SrcAddrs == {0, FW_CHANNEL, NUM_CHANNELS - 1, NUM_CHANNELS}

\* the fields of struct msg that the handlers' control flow and the
\* dispatcher's own state depend on
MsgTs == 4
MsgTimeInc == 1
Msg(mt, a) ==
    [msgtype |-> mt, srcAddr |-> a, ts |-> MsgTs, timeInc |-> MsgTimeInc]

Msgs ==
    {Msg(mt, 0) : mt \in MsgTypes \ {"MSG_SOFTWARE"}}
    \cup {Msg("MSG_SOFTWARE", a) : a \in SrcAddrs}

NoMsg == Msg("MSG_NONE", 0)

\* what one ITMPump call, and the ITMGetDecodedPacket after it, may give
ItmOutcomes ==
    {[ev |-> e, msg |-> NoMsg] : e \in ItmEvents \ {"ITM_EV_PACKET_RXED"}}
    \cup {[ev |-> "ITM_EV_PACKET_RXED", msg |-> m] : m \in Msgs}

Call(op, arg) == [op |-> op, arg |-> arg]

WriteCall(chan, what, m) ==
    Call("write", [chan |-> chan, what |-> what, msg |-> m])

\* mutant: the filewriter channel is written to its pipe as well
handleSWBoth(m, fh) ==
    IF m.srcAddr = FW_CHANNEL /\ fh.filewriter
    THEN <<Call("filewriterProcess", [msg |-> m])>>
         \o (IF m.srcAddr \in fh.open
             THEN <<WriteCall(m.srcAddr, "swMsg", m)>> ELSE <<>>)
    ELSE IF m.srcAddr < NUM_CHANNELS /\ m.srcAddr \in fh.open
         THEN <<WriteCall(m.srcAddr, "swMsg", m)>>
         ELSE <<>>

\* _handleSW: the calls it makes
handleSW(m, fh) ==
    IF m.srcAddr = FW_CHANNEL /\ fh.filewriter
    THEN <<Call("filewriterProcess", [msg |-> m])>>
    ELSE IF m.srcAddr < NUM_CHANNELS /\ m.srcAddr \in fh.open
         THEN <<WriteCall(m.srcAddr, "swMsg", m)>>
         ELSE <<>>

\* the handlers that restart the interval between hardware events
StampingHandlers ==
    {"_handleException", "_handleDWTEvent", "_handlePCSample",
     "_handleDataRWWP", "_handleDataAccessWP", "_handleDataOffsetWP"}

\* mutant: every hardware event handler advances the time as well
RunHandlerAllAdvance(fn, m, fh) ==
    CASE fn = "_handleSW" ->
             [fifo |-> fh, calls |-> handleSW(m, fh)]
      [] fn = "_handleTS" ->
             [fifo |-> [fh EXCEPT !.timeStamp = @ + m.timeInc,
                                  !.timeStatus = "from_message"],
              calls |-> <<WriteCall(HW_CHANNEL, "text", m)>>]
      [] fn = "_handleNISYNC" ->
             [fifo |-> fh, calls |-> <<WriteCall(HW_CHANNEL, "text", m)>>]
      [] fn = "_handleDWTEvent" ->
             [fifo |-> [fh EXCEPT !.lastHWExceptionTS = m.ts],
              calls |-> <<WriteCall(HW_CHANNEL, "text", m),
                          WriteCall(HW_CHANNEL, "EOL", m)>>]
      [] OTHER ->
             [fifo |-> [fh EXCEPT !.lastHWExceptionTS = m.ts,
                                  !.timeStamp = @ + m.timeInc],
              calls |-> <<WriteCall(HW_CHANNEL, "text", m)>>]

\* one handler of the table run on message m: the handle afterwards and the
\* calls made
RunHandler(fn, m, fh) ==
    CASE fn = "_handleSW" ->
             [fifo |-> fh, calls |-> handleSW(m, fh)]
      [] fn = "_handleTS" ->
             [fifo |-> [fh EXCEPT !.timeStamp = @ + m.timeInc,
                                  !.timeStatus = "from_message"],
              calls |-> <<WriteCall(HW_CHANNEL, "text", m)>>]
      [] fn = "_handleNISYNC" ->
             [fifo |-> fh, calls |-> <<WriteCall(HW_CHANNEL, "text", m)>>]
      [] fn = "_handleDWTEvent" ->
             [fifo |-> [fh EXCEPT !.lastHWExceptionTS = m.ts],
              calls |-> <<WriteCall(HW_CHANNEL, "text", m),
                          WriteCall(HW_CHANNEL, "EOL", m)>>]
      [] OTHER ->
             [fifo |-> [fh EXCEPT !.lastHWExceptionTS = m.ts],
              calls |-> <<WriteCall(HW_CHANNEL, "text", m)>>]

HandlerCall(fn, m) == Call("handler", [fn |-> fn, msg |-> m])

\* mutant: the table entry is called without the test for NULL
itmPumpProcessNoNullTest(fh, c, o) ==
    LET pumped == <<Call("ITMPump", [c |-> c, ret |-> o.ev])>>
        fn == handlers[o.msg.msgtype]
        ran == RunHandler(fn, o.msg, fh)
    IN IF o.ev = "ITM_EV_PACKET_RXED"
       THEN LET got == pumped
                       \o <<Call("ITMGetDecodedPacket", [msg |-> o.msg])>>
            IN [fifo |-> ran.fifo,
                calls |-> got \o <<HandlerCall(fn, o.msg)>> \o ran.calls]
       ELSE [fifo |-> fh, calls |-> pumped]

\* mutant: the message is handed over before its byte is pumped
itmPumpProcessEarly(fh, c, o) ==
    LET pumped == <<Call("ITMPump", [c |-> c, ret |-> o.ev])>>
        fn == handlers[o.msg.msgtype]
        ran == RunHandler(fn, o.msg, fh)
    IN IF o.ev = "ITM_EV_PACKET_RXED"
       THEN LET got == <<Call("ITMGetDecodedPacket", [msg |-> o.msg])>>
            IN IF fn # "NULL"
               THEN [fifo |-> ran.fifo,
                     calls |-> <<HandlerCall(fn, o.msg)>> \o ran.calls
                               \o pumped \o got]
               ELSE [fifo |-> fh, calls |-> pumped \o got]
       ELSE [fifo |-> fh, calls |-> pumped]

\* _itmPumpProcess: byte c goes into the ITM decoder, which answers o
itmPumpProcess(fh, c, o) ==
    LET pumped == <<Call("ITMPump", [c |-> c, ret |-> o.ev])>>
        fn == handlers[o.msg.msgtype]
        ran == RunHandler(fn, o.msg, fh)
    IN IF o.ev = "ITM_EV_PACKET_RXED"
       THEN LET got == pumped
                       \o <<Call("ITMGetDecodedPacket", [msg |-> o.msg])>>
            IN IF fn # "NULL"
               THEN [fifo |-> ran.fifo,
                     calls |-> got \o <<HandlerCall(fn, o.msg)>>
                               \o ran.calls]
               ELSE [fifo |-> fh, calls |-> got]
       ELSE [fifo |-> fh, calls |-> pumped]

\* the data bytes of a packet that travel on stream s, in order
OnStream(pkt, s) == SelectSeq(pkt, LAMBDA e : e.s = s)

\* the loop of _tpiuProtocolPump over the items of the packet: the items of
\* the ITM stream are pumped, item by item, os[k] being the decoder's
\* answer to the k-th of them
RECURSIVE PacketDispatch(_, _, _, _)
PacketDispatch(fh, pkt, os, done) ==
    IF pkt = <<>>
    THEN [fifo |-> fh, calls |-> done]
    ELSE IF Head(pkt).s = fh.tpiuITMChannel
         THEN LET res == itmPumpProcess(fh, Head(pkt).d, Head(os))
              IN PacketDispatch(res.fifo, Tail(pkt), Tail(os),
                                done \o res.calls)
         ELSE PacketDispatch(fh, Tail(pkt), os, done)

ForceSyncCall(isSynced) ==
    Call("ITMDecoderForceSync", [isSynced |-> isSynced])

\* mutant: a lost TPIU sync is not passed on to the ITM decoder
tpiuEventCallsQuiet(e) ==
    IF e \in {"TPIU_EV_NEWSYNC", "TPIU_EV_SYNCED"}
    THEN <<ForceSyncCall(TRUE)>>
    ELSE <<>>

\* _tpiuProtocolPump, the cases that do not deliver a packet: the calls
\* made on the ITM decoder
tpiuEventCalls(e) ==
    CASE e \in {"TPIU_EV_NEWSYNC", "TPIU_EV_SYNCED"} ->
             <<ForceSyncCall(TRUE)>>
      [] e = "TPIU_EV_UNSYNCED" -> <<ForceSyncCall(FALSE)>>
      [] OTHER -> <<>>

(***************************************************************************)
(* The byte source of SpecFifo                                             *)
(***************************************************************************)
MaxFifoRaw == 3
FifoRawTape == [i \in 1..MaxFifoRaw |-> 16 * i]

\* a frame with two bytes of stream 1 (the second through a delayed stream
\* change) and the rest on stream 2
FifoFrame == <<3, 16, 5, 32, 48, 49, 64, 65, 80, 81, 96, 97, 112, 113, 128,
               2>>
FifoTpiuTape == ChunkSync \o FifoFrame \o ChunkSync \o FifoFrame

\* which channels have an open pipe
OpenSets ==
    {{}, {0, HW_CHANNEL}, {0, FW_CHANNEL, NUM_CHANNELS - 1, HW_CHANNEL}}

\* the handle after itmfifoInit and itmfifoCreate
InitFifo ==
    /\ InitDecoder
    /\ InitFrameGhosts
    /\ NoRing
    /\ NoSink
    /\ NoFormat
    /\ NoCat
    /\ NoChan
    /\ test = NoTest
    /\ pending = <<>>
    /\ chunksLeft = 0
    /\ callsLeft = 0
    /\ \E tp \in BOOLEAN, fw \in BOOLEAN, op \in OpenSets :
           fifo = [useTPIU |-> tp, filewriter |-> fw, tpiuITMChannel |-> 1,
                   open |-> op, timeStamp |-> 0, timeStatus |-> "none",
                   lastHWExceptionTS |-> 0]
    /\ fifoCalls = <<>>
    /\ fifoSrc = IF fifo.useTPIU THEN FifoTpiuTape ELSE FifoRawTape

\* itmfifoProtocolPump on the next byte of the source
itmfifoProtocolPump ==
    /\ fifoSrc # <<>>
    /\ LET c == Head(fifoSrc)
       IN IF fifo.useTPIU
          THEN LET res == TPIUPump(t, c, now)
                   got == TPIUGetPacket(res.t, p)
               IN /\ ev' = res.r
                  /\ IF res.r = "TPIU_EV_RXEDPACKET"
                     THEN /\ t' = got.t
                          /\ p' = got.p
                          /\ pOk' = got.ok
                          /\ \E os \in [1..Len(OnStream(got.p,
                                               fifo.tpiuITMChannel))
                                        -> ItmOutcomes] :
                                 LET d == PacketDispatch(fifo, got.p, os,
                                                         <<>>)
                                 IN /\ fifo' = d.fifo
                                    /\ fifoCalls' = d.calls
                     ELSE /\ t' = res.t
                          /\ fifoCalls' = tpiuEventCalls(res.r)
                          /\ UNCHANGED <<p, pOk, fifo>>
          ELSE \E o \in ItmOutcomes :
                   LET d == itmPumpProcess(fifo, c, o)
                   IN /\ fifo' = d.fifo
                      /\ fifoCalls' = d.calls
                      /\ UNCHANGED <<t, ev, p, pOk>>
    /\ fifoSrc' = Tail(fifoSrc)
    /\ lastOp' = "fifo_pump"
    /\ UNCHANGED <<now, pending, chunksLeft, callsLeft, B, sinceMark, prev,
                   forced, mark, frameVars, ringVars, sinkVars, fmtVars, catVars, chanVars>>

NextFifo == itmfifoProtocolPump \/ Tick

SpecFifo == InitFifo /\ [][NextFifo]_vars

(***************************************************************************)
(* itmfifos: the fifo threads behind the channel pipes, the dispatcher's   *)
(* writes into the pipes, and itmfifoShutdown.  Every step of a thread is  *)
(* one system call together with the tests that follow it.                 *)
(***************************************************************************)
\* the channels itmfifoCreate made a pipe and a thread for: one software
\* channel and the hardware channel, in the order of its loop
ChanOrder == <<0, HW_CHANNEL>>
SinkChans == {ChanOrder[i] : i \in 1..Len(ChanOrder)}

\* messages a pipe holds before a write into it cannot proceed
PipeCap == 2
\* messages the dispatcher writes, and times a reader of an output comes or
\* goes
MaxSinkMsgs == 3
MaxReaderChanges == 2

\* readDataLen, written and writeDataLen are of type size_t: x > 0 on a
\* size_t that was assigned the result x of read or write holds for every
\* x but 0, the result -1 being stored as SIZE_MAX
gt0_size_t(x) == x # 0

\* the locals of a thread on entry (written and writeDataLen are tested
\* right after they are assigned and are not kept); exit tells how the
\* thread ended
ThreadStart ==
    [pc |-> "mkfifo", readDataLen |-> 0, opfile |-> "none", exit |-> "none"]

\* mutant: the write end is closed but the thread is not signalled
TellThreadNoKill(sp, ch) == sp

\* itmfifoShutdown, first loop: pthread_kill on the thread of channel ch
TellThread(sp, ch) == [sp EXCEPT ![ch] = TRUE]

\* mutant: a full pipe makes the write wait although permafile is off
PipeWriteWaits(q, perma, id) ==
    IF Len(q) < PipeCap THEN [q |-> Append(q, id), res |-> "written"]
    ELSE [q |-> q, res |-> "blocked"]

\* a write of one message into the pipe of a channel: the write end was
\* made O_NONBLOCK unless permafile is set
PipeWrite(q, perma, id) ==
    IF Len(q) < PipeCap THEN [q |-> Append(q, id), res |-> "written"]
    ELSE IF perma THEN [q |-> q, res |-> "blocked"]
    ELSE [q |-> q, res |-> "lost"]

\* what the write of a thread to its output may return: the bytes written,
\* 0 when there was nothing to write (a format that expands to nothing), -1
\* when the output was not opened, has no reader any more or cannot take
\* the data
WriteResults(ch, th) ==
    IF th.opfile = "bad" THEN {-1}
    ELSE (IF permafile \/ reader[ch] THEN {4} ELSE {})
         \cup (IF permafile \/ ~reader[ch] THEN {-1} ELSE {})
         \cup (IF ch # HW_CHANNEL THEN {0} ELSE {})

InitSinkWith(msgs) ==
    /\ InitDecoder
    /\ InitFrameGhosts
    /\ NoRing
    /\ NoFifo
    /\ NoFormat
    /\ NoCat
    /\ NoChan
    /\ test = NoTest
    /\ pending = <<>>
    /\ chunksLeft = 0
    /\ callsLeft = 0
    /\ thread = [ch \in SinkChans |-> ThreadStart]
    /\ pipe = [ch \in SinkChans |-> <<>>]
    /\ handleOpen = [ch \in SinkChans |-> TRUE]
    /\ sigPending = [ch \in SinkChans |-> FALSE]
    /\ reader = [ch \in SinkChans |-> FALSE]
    /\ shut = [pc |-> "running", t |-> 1]
    /\ permafile \in BOOLEAN
    /\ disp = [ch \in SinkChans |-> [put |-> <<>>, lost |-> <<>>,
                                     read |-> <<>>]]
    /\ budget = [msgs |-> msgs, readers |-> MaxReaderChanges]

InitSink == InitSinkWith(MaxSinkMsgs)

\* the same with fewer messages left to dispatch when the shutdown is
\* followed to its end
MaxLiveMsgs == 2
InitSinkLive == InitSinkWith(MaxLiveMsgs)

sinkFrame == <<tpiuVars, frameVars, ringVars, fifoVars, fmtVars, catVars, chanVars>>

\* _runFifo and _runHWFifo up to the outer loop: unlink and mkfifo
runFifoMkfifo(ch) ==
    /\ thread[ch].pc = "mkfifo"
    /\ \E made \in (IF permafile THEN {TRUE} ELSE BOOLEAN) :
           thread' = [thread EXCEPT
                         ![ch].pc = IF made THEN "open" ELSE "exited",
                         ![ch].exit = IF made THEN "none" ELSE "mkfifo"]
    /\ UNCHANGED <<pipe, handleOpen, sigPending, reader, shut, permafile,
                   disp, budget, sinkFrame>>

\* open of the output: a fifo opened for writing waits for a reader, a
\* permanent file is created, which may fail
runFifoOpen(ch) ==
    /\ thread[ch].pc = "open"
    /\ permafile \/ reader[ch]
    /\ \E res \in (IF permafile THEN {"open", "bad"} ELSE {"open"}) :
           thread' = [thread EXCEPT ![ch].pc = "read", ![ch].opfile = res]
    /\ UNCHANGED <<pipe, handleOpen, sigPending, reader, shut, permafile,
                   disp, budget, sinkFrame>>

\* read of the pipe: a message, or 0 once the write end is closed and the
\* pipe is empty; it waits otherwise
runFifoRead(ch) ==
    /\ thread[ch].pc = "read"
    /\ pipe[ch] # <<>> \/ ~handleOpen[ch]
    /\ IF pipe[ch] # <<>>
       THEN /\ thread' = [thread EXCEPT ![ch].pc = "write",
                                        ![ch].readDataLen = 1]
            /\ pipe' = [pipe EXCEPT ![ch] = Tail(@)]
            /\ disp' = [disp EXCEPT ![ch].read = Append(@, Head(pipe[ch]))]
       ELSE /\ thread' = [thread EXCEPT ![ch].pc = "close",
                                        ![ch].readDataLen = 0]
            /\ UNCHANGED <<pipe, disp>>
    /\ UNCHANGED <<handleOpen, sigPending, reader, shut, permafile, budget,
                   sinkFrame>>

\* write of the message to the output and the test of the inner loop
runFifoWrite(ch) ==
    /\ thread[ch].pc = "write"
    /\ \E res \in WriteResults(ch, thread[ch]) :
           thread' = [thread EXCEPT
                         ![ch].pc = IF /\ gt0_size_t(thread[ch].readDataLen)
                                       /\ gt0_size_t(res)
                                    THEN "read" ELSE "close"]
    /\ UNCHANGED <<pipe, handleOpen, sigPending, reader, shut, permafile,
                   disp, budget, sinkFrame>>

\* close of the output and the test of the outer loop
runFifoClose(ch) ==
    /\ thread[ch].pc = "close"
    /\ thread' = [thread EXCEPT
                     ![ch].opfile = "none",
                     ![ch].pc = IF gt0_size_t(thread[ch].readDataLen)
                                THEN "open" ELSE "exited",
                     ![ch].exit = IF gt0_size_t(thread[ch].readDataLen)
                                  THEN "none" ELSE "eof"]
    /\ UNCHANGED <<pipe, handleOpen, sigPending, reader, shut, permafile,
                   disp, budget, sinkFrame>>

\* _intEINTRHandler run on the thread the signal was sent to
intEINTRHandler(ch) ==
    /\ sigPending[ch]
    /\ thread[ch].pc # "exited"
    /\ thread' = [thread EXCEPT ![ch].pc = "exited", ![ch].exit = "signal"]
    /\ sigPending' = [sigPending EXCEPT ![ch] = FALSE]
    /\ UNCHANGED <<pipe, handleOpen, reader, shut, permafile, disp, budget,
                   sinkFrame>>

\* a process opens or closes the output of a channel for reading
ReaderChange(ch) ==
    /\ budget.readers > 0
    /\ reader' = [reader EXCEPT ![ch] = ~@]
    /\ budget' = [budget EXCEPT !.readers = @ - 1]
    /\ UNCHANGED <<thread, pipe, handleOpen, sigPending, shut, permafile,
                   disp, sinkFrame>>

\* a handler of the dispatcher writes one message to the pipe of channel ch
DispatchWrite(ch) ==
    /\ shut.pc = "running"
    /\ budget.msgs > 0
    /\ LET id == MaxSinkMsgs - budget.msgs + 1
           w == PipeWrite(pipe[ch], permafile, id)
       IN /\ w.res # "blocked"
          /\ pipe' = [pipe EXCEPT ![ch] = w.q]
          /\ disp' = IF w.res = "written"
                     THEN [disp EXCEPT ![ch].put = Append(@, id)]
                     ELSE [disp EXCEPT ![ch].lost = Append(@, id)]
    /\ budget' = [budget EXCEPT !.msgs = @ - 1]
    /\ UNCHANGED <<thread, handleOpen, sigPending, reader, shut, permafile,
                   sinkFrame>>

\* itmfifoShutdown is called
ShutdownBegin ==
    /\ shut.pc = "running"
    /\ shut' = [pc |-> "tell", t |-> 1]
    /\ UNCHANGED <<thread, pipe, handleOpen, sigPending, reader, permafile,
                   disp, budget, sinkFrame>>

\* first loop: close the write end and signal the thread
ShutdownTell ==
    /\ shut.pc = "tell"
    /\ LET ch == ChanOrder[shut.t]
       IN /\ handleOpen' = [handleOpen EXCEPT ![ch] = FALSE]
          /\ sigPending' = TellThread(sigPending, ch)
    /\ shut' = IF shut.t < Len(ChanOrder)
               THEN [shut EXCEPT !.t = @ + 1]
               ELSE [pc |-> "join", t |-> 1]
    /\ UNCHANGED <<thread, pipe, reader, permafile, disp, budget, sinkFrame>>

\* second loop: pthread_join waits for the thread to have exited
ShutdownJoin ==
    /\ shut.pc = "join"
    /\ thread[ChanOrder[shut.t]].pc = "exited"
    /\ shut' = IF shut.t < Len(ChanOrder)
               THEN [shut EXCEPT !.t = @ + 1]
               ELSE [pc |-> "returned", t |-> 1]
    /\ UNCHANGED <<thread, pipe, handleOpen, sigPending, reader, permafile,
                   disp, budget, sinkFrame>>

ThreadStep(ch) ==
    \/ runFifoMkfifo(ch)
    \/ runFifoOpen(ch)
    \/ runFifoRead(ch)
    \/ runFifoWrite(ch)
    \/ runFifoClose(ch)

NextSink ==
    \/ \E ch \in SinkChans : ThreadStep(ch)
    \/ \E ch \in SinkChans : intEINTRHandler(ch)
    \/ \E ch \in SinkChans : ReaderChange(ch)
    \/ \E ch \in SinkChans : DispatchWrite(ch)
    \/ ShutdownBegin
    \/ ShutdownTell
    \/ ShutdownJoin

\* a pending signal is delivered, a thread that can run does run, and
\* itmfifoShutdown, once called, goes on whenever it is not waiting
SinkFairness ==
    /\ \A ch \in SinkChans : WF_vars(intEINTRHandler(ch))
    /\ \A ch \in SinkChans : WF_vars(ThreadStep(ch))
    /\ WF_vars(ShutdownTell)
    /\ WF_vars(ShutdownJoin)

SpecSink == InitSink /\ [][NextSink]_vars

SpecSinkLive == InitSinkLive /\ [][NextSink]_vars /\ SinkFairness


(***************************************************************************)
(* _runFifo: what is written to the output for one message.  A format is   *)
(* a string of character codes or NULL; a buffer position that was never  *)
(* written holds Indet.                                                    *)
(***************************************************************************)
MAX_STRING_LENGTH == 100
Indet == -1
NUL == 0

\* n copies of the character c
RECURSIVE Rep(_, _)
Rep(c, n) == IF n = 0 THEN <<>> ELSE <<c>> \o Rep(c, n - 1)

HexDigit(n) == IF n < 10 THEN 48 + n ELSE 87 + n

\* the 32-bit value with bytes v (least significant first) printed by %x
RECURSIVE StripZeros(_)
StripZeros(ds) ==
    IF Len(ds) > 1 /\ Head(ds) = 48 THEN StripZeros(Tail(ds)) ELSE ds

Hex(v) ==
    StripZeros(<<HexDigit(v[4] \div 16), HexDigit(v[4] % 16),
                 HexDigit(v[3] \div 16), HexDigit(v[3] % 16),
                 HexDigit(v[2] \div 16), HexDigit(v[2] % 16),
                 HexDigit(v[1] \div 16), HexDigit(v[1] % 16)>>)

\* the characters % c x
Pct == 37
LowerC == 99
LowerX == 120

\* fm starts with the conversion % conv
StartsConv(fm, conv) == Len(fm) >= 2 /\ fm[1] = Pct /\ fm[2] = conv

\* the text printf makes of the string fm when every argument is arg: %c
\* prints the byte arg, %x the 32-bit value with the bytes arg
RECURSIVE Expand(_, _)
Expand(fm, arg) ==
    IF fm = <<>> THEN <<>>
    ELSE IF StartsConv(fm, LowerC) THEN <<arg>> \o Expand(Tail(Tail(fm)), arg)
    ELSE IF StartsConv(fm, LowerX) THEN Hex(arg) \o Expand(Tail(Tail(fm)), arg)
    ELSE <<Head(fm)>> \o Expand(Tail(fm), arg)

\* strstr( c->presFormat, "%c" )
HasConv(fm, conv) ==
    \E i \in 1..(Len(fm) - 1) : fm[i] = Pct /\ fm[i + 1] = conv

\* c->presFormat: NULL or a string
NullFormat == [null |-> TRUE, s |-> <<>>]
Fmt(s) == [null |-> FALSE, s |-> s]

\* snprintf( &buf[off], size, ... ) of text tx, size > 0: at most size - 1
\* characters and a NUL are stored
snprintf(buf, off, size, tx) ==
    LET n == IF Len(tx) < size THEN Len(tx) ELSE size - 1
    IN [i \in 0..(MAX_STRING_LENGTH - 1) |->
           IF i >= off /\ i < off + n THEN tx[i - off + 1]
           ELSE IF i = off + n THEN NUL
           ELSE buf[i]]

\* constructString before anything is stored in it
FreshString == [i \in 0..(MAX_STRING_LENGTH - 1) |-> Indet]

\* op[l] of the %c branch: byte l of m.value
op(m, l) == m.value[l + 1]

\* the do-while of the %c branch from index l on, with writeDataLen = wdl.
\* Past the end of constructString the address handed to snprintf is
\* outside the array and the size MAX_STRING_LENGTH - writeDataLen, a
\* size_t, wraps to a huge value: undefined behaviour (ub).
RECURSIVE PerCharLoop(_, _, _, _, _, _)
PerCharLoop(buf, wdl, l, m, fm, n) ==
    IF wdl > MAX_STRING_LENGTH
    THEN [ub |-> TRUE, buf |-> buf, writeDataLen |-> wdl, expansions |-> n]
    ELSE LET tx == Expand(fm, op(m, l))
             b1 == IF wdl = MAX_STRING_LENGTH THEN buf
                   ELSE snprintf(buf, wdl, MAX_STRING_LENGTH - wdl, tx)
         IN IF l + 1 < m.len
            THEN PerCharLoop(b1, wdl + Len(tx), l + 1, m, fm, n + 1)
            ELSE [ub |-> FALSE, buf |-> b1, writeDataLen |-> wdl + Len(tx),
                  expansions |-> n + 1]

\* the first n bytes of the buffer
Written(buf, n) == [i \in 1..n |-> buf[i - 1]]

\* what undefined behaviour may come to: the thread is killed when the
\* overrun of the stack is detected, or it writes what the buffer holds
UbOutcomes(res) ==
    {[ub |-> TRUE, killed |-> TRUE, expansions |-> res.expansions,
      out |-> <<>>],
     [ub |-> TRUE, killed |-> FALSE, expansions |-> res.expansions,
      out |-> Written(res.buf, MAX_STRING_LENGTH)]}

\* the body of the inner loop of _runFifo after a message m was read: the
\* possible outcomes.  w is what the local w holds, which is never assigned.
runFifoOutput(m, fm, w) ==
    IF ~fm.null
    THEN IF HasConv(fm.s, LowerC)
         THEN LET res == PerCharLoop(FreshString, 0, 0, m, fm.s, 0)
                  n == IF res.writeDataLen < MAX_STRING_LENGTH
                       THEN res.writeDataLen ELSE MAX_STRING_LENGTH
              IN IF res.ub THEN UbOutcomes(res)
                 ELSE {[ub |-> FALSE, killed |-> FALSE,
                        expansions |-> res.expansions,
                        out |-> Written(res.buf, n)]}
         ELSE LET tx == Expand(fm.s, m.value)
                  buf == snprintf(FreshString, 0, MAX_STRING_LENGTH, tx)
                  n == IF Len(tx) < MAX_STRING_LENGTH
                       THEN Len(tx) ELSE MAX_STRING_LENGTH
              IN {[ub |-> FALSE, killed |-> FALSE, expansions |-> 1,
                   out |-> Written(buf, n)]}
    ELSE {[ub |-> FALSE, killed |-> FALSE, expansions |-> 0, out |-> w]}

\* payload bytes, message lengths and formats tried
PayloadBytes == {0, 65}
MsgLens == 1..4
Formats ==
    {NullFormat, Fmt(<<Pct, LowerC>>), Fmt(<<91, Pct, LowerC, 93>>),
     Fmt(<<Pct, LowerX, 10>>), Fmt(Rep(46, 24) \o <<Pct, LowerC>>),
     Fmt(Rep(46, 33) \o <<Pct, LowerC>>)}

\* what an unassigned 32-bit local may hold
Unassigned32(m) == {<<0, 0, 0, 0>>, <<239, 190, 173, 222>>, m.value}

InitFormat ==
    /\ InitDecoder
    /\ InitFrameGhosts
    /\ NoRing
    /\ NoFifo
    /\ NoSink
    /\ NoCat
    /\ NoChan
    /\ test = NoTest
    /\ pending = <<>>
    /\ chunksLeft = 0
    /\ callsLeft = 0
    /\ \E v \in [1..4 -> PayloadBytes], n \in MsgLens, fm \in Formats :
           LET m == [value |-> v, len |-> n]
           IN \E w \in Unassigned32(m) :
                  fmtIn = [m |-> m, presFormat |-> fm, w |-> w]
    /\ fmtOut = <<>>

\* the thread formats the message and writes it
runFifoFormat ==
    /\ fmtOut = <<>>
    /\ fmtOut' \in runFifoOutput(fmtIn.m, fmtIn.presFormat, fmtIn.w)
    /\ UNCHANGED <<fmtIn, tpiuVars, frameVars, ringVars, fifoVars, sinkVars,
                   catVars, chanVars>>

NextFormat == runFifoFormat

SpecFormat == InitFormat /\ [][NextFormat]_vars


(***************************************************************************)
(* orbcat: main, fileFeeder and socketFeeder.  The bytes read are counted, *)
(* not decoded.                                                            *)
(***************************************************************************)
MaxCatReads == 2
MaxCatBlock == 2
MaxCatConnects == 3

\* what orbcat leaves alone
catFrame ==
    <<tpiuVars, frameVars, ringVars, fifoVars, sinkVars, fmtVars, chanVars>>

\* the value of true in exit( fileFeeder() )
true == 1

InitCat ==
    /\ InitDecoder
    /\ InitFrameGhosts
    /\ NoRing
    /\ NoFifo
    /\ NoSink
    /\ NoFormat
    /\ NoChan
    /\ test = NoTest
    /\ pending = <<>>
    /\ chunksLeft = 0
    /\ callsLeft = 0
    /\ \E o \in [file : BOOLEAN, endTerminate : BOOLEAN] :
           orbcat = [pc |-> "options", options |-> o, pumped |-> 0,
                     fdOpen |-> FALSE, rc |-> 0, connects |-> 0,
                     exited |-> FALSE, status |-> 0, why |-> "running"]
    /\ catBudget = [reads |-> MaxCatReads, connects |-> MaxCatConnects]

\* exit( status ), and the return from main
Exit(c, status, why) ==
    [c EXCEPT !.pc = "exited", !.exited = TRUE, !.status = status,
              !.why = why]

\* exit( fileFeeder() )
ExitFileFeeder(c, res, why) == Exit(c, res, why)

\* main: _processOptions fails, or the decoders are set up and the feeder
\* is chosen
processOptions ==
    /\ orbcat.pc = "options"
    /\ \E ok \in BOOLEAN :
         orbcat' = IF ~ok THEN Exit(orbcat, -1, "option_error")
                   ELSE [orbcat EXCEPT !.pc = IF orbcat.options.file
                                              THEN "fileOpen" ELSE "socket"]
    /\ UNCHANGED <<catBudget, catFrame>>

\* fileFeeder: the file is opened
fileFeederOpen ==
    /\ orbcat.pc = "fileOpen"
    /\ \E ok \in BOOLEAN :
         orbcat' = IF ~ok THEN Exit(orbcat, -4, "file_open_error")
                   ELSE [orbcat EXCEPT !.pc = "fileRead", !.fdOpen = TRUE]
    /\ UNCHANGED <<catBudget, catFrame>>

\* fileFeeder: one read of the file and what follows it
fileFeederRead ==
    /\ orbcat.pc = "fileRead"
    /\ \E tt \in -1..MaxCatBlock :
         /\ tt > 0 => catBudget.reads > 0
         /\ catBudget' = IF tt > 0
                         THEN [catBudget EXCEPT !.reads = @ - 1]
                         ELSE catBudget
         /\ orbcat' =
              IF tt < 0
              THEN ExitFileFeeder([orbcat EXCEPT !.fdOpen = FALSE], true,
                                  "file_read_error")
              ELSE IF tt = 0
              THEN IF orbcat.options.endTerminate
                   THEN ExitFileFeeder([orbcat EXCEPT !.fdOpen = FALSE],
                                       true, "file_end")
                   ELSE orbcat
              ELSE [orbcat EXCEPT !.pumped = @ + tt]
    /\ UNCHANGED catFrame

\* socketFeeder up to its read loop: a failure returns -1 with the socket
\* left open if it was made
socketFeederConnect ==
    /\ orbcat.pc = "socket"
    /\ catBudget.connects > 0
    /\ catBudget' = [catBudget EXCEPT !.connects = @ - 1]
    /\ \E res \in {"no_socket", "no_host", "no_connect", "connected"} :
         orbcat' = IF res = "connected"
                   THEN [orbcat EXCEPT !.pc = "sockRead", !.fdOpen = TRUE,
                                       !.connects = @ + 1]
                   ELSE [orbcat EXCEPT !.pc = "backoff", !.rc = -1]
    /\ UNCHANGED catFrame

\* socketFeeder: one recv and what follows it
socketFeederRecv ==
    /\ orbcat.pc = "sockRead"
    /\ \E tt \in -1..MaxCatBlock :
         /\ tt > 0 => catBudget.reads > 0
         /\ catBudget' = IF tt > 0
                         THEN [catBudget EXCEPT !.reads = @ - 1]
                         ELSE catBudget
         /\ orbcat' =
              IF tt > 0 THEN [orbcat EXCEPT !.pumped = @ + tt]
              ELSE [orbcat EXCEPT !.pc = "backoff", !.fdOpen = FALSE,
                                  !.rc = -2]
    /\ UNCHANGED catFrame

\* main: the pause after socketFeeder has returned, then the next attempt
\* or the end of main
mainBackoff ==
    /\ orbcat.pc = "backoff"
    /\ orbcat' = IF orbcat.options.endTerminate
                 THEN Exit(orbcat, 0, "socket_end")
                 ELSE [orbcat EXCEPT !.pc = "socket"]
    /\ UNCHANGED <<catBudget, catFrame>>

NextCat ==
    \/ processOptions
    \/ fileFeederOpen
    \/ fileFeederRead
    \/ socketFeederConnect
    \/ socketFeederRecv
    \/ mainBackoff

SpecCat == InitCat /\ [][NextCat]_vars

(***************************************************************************)
(* itmfifos: the configuration of the channels, f->c[chan].chanName and    *)
(* f->c[chan].presFormat, and the calls that set and read it.              *)
(***************************************************************************)
\* a char *: NULL, or the string it points to
NullStr == [null |-> TRUE, s |-> ""]
Str(s) == [null |-> FALSE, s |-> s]

\* strdup: a copy of the string
strdup(x) == Str(x.s)

\* the channels configured in a run, the first, one in the middle and the
\* hardware channel, and the names and formats given
ChanSet == {0, 1, NUM_CHANNELS}
ChanNames == {Str("swo"), Str("log")}
ChanFormats == {NullStr, Str("%c"), Str("%d")}

\* all of c[] as calloc leaves it
FreshChannels ==
    [c \in 0..NUM_CHANNELS |-> [chanName |-> NullStr, presFormat |-> NullStr]]

\* f as itmfifoInit returns it
InitChan ==
    /\ InitDecoder
    /\ InitFrameGhosts
    /\ NoRing
    /\ NoFifo
    /\ NoSink
    /\ NoFormat
    /\ NoCat
    /\ test = NoTest
    /\ pending = <<>>
    /\ chunksLeft = 0
    /\ callsLeft = 0
    /\ chans = FreshChannels
    /\ chanOp = [op |-> "init", chan |-> 0, n |-> NullStr, s |-> NullStr,
                 got |-> NullStr]

chanFrame ==
    <<tpiuVars, frameVars, ringVars, fifoVars, sinkVars, fmtVars, catVars>>

\* what the three calls return or leave in c[]
SetChannel(c, chan, n, s) ==
    [c EXCEPT ![chan] = [chanName |-> strdup(n),
                         presFormat |-> IF s.null THEN NullStr
                                        ELSE strdup(s)]]

GetChannelName(c, chan) == c[chan].chanName

GetChannelFormat(c, chan) == c[chan].chanName

itmfifoSetChannel ==
    \E chan \in ChanSet, n \in ChanNames, s \in ChanFormats :
        /\ chans' = SetChannel(chans, chan, n, s)
        /\ chanOp' = [op |-> "set", chan |-> chan, n |-> n, s |-> s,
                      got |-> NullStr]
        /\ UNCHANGED chanFrame

itmfifoGetChannelName ==
    \E chan \in ChanSet :
        /\ chanOp' = [op |-> "get_name", chan |-> chan, n |-> NullStr,
                      s |-> NullStr, got |-> GetChannelName(chans, chan)]
        /\ UNCHANGED <<chans, chanFrame>>

itmfifoGetChannelFormat ==
    \E chan \in ChanSet :
        /\ chanOp' = [op |-> "get_format", chan |-> chan, n |-> NullStr,
                      s |-> NullStr, got |-> GetChannelFormat(chans, chan)]
        /\ UNCHANGED <<chans, chanFrame>>

NextChan ==
    \/ itmfifoSetChannel
    \/ itmfifoGetChannelName
    \/ itmfifoGetChannelFormat

SpecChan == InitChan /\ [][NextChan]_vars

(***************************************************************************)
(* Properties of the TPIU decoder                                          *)
(***************************************************************************)
Pumped == lastOp \in {"pump", "protocol_pump"}

\* the byte pumped by the most recent pump
LastByte == B[Len(B)]

\* C1: without force_sync, a pump that returns RxedPacket is the 16th byte
\* accepted since the last sync match or the previous RxedPacket, the
\* bytes of discarded half-sync pairs not counted
C1_RxedPacketOn16th ==
    (ev = "TPIU_EV_RXEDPACKET" /\ ~forced) => sinceMark = TPIU_PACKET_LEN

\* a packet whose frame had a half-sync pair taken out of it
C1_Witness ==
    /\ ev = "TPIU_EV_RXEDPACKET"
    /\ ~forced
    /\ Pumped
    /\ t.stats.halfSyncCount = 1
    /\ sinceMark = TPIU_PACKET_LEN
    /\ Len(B) = 4 + 2 + TPIU_PACKET_LEN

\* C4: a pump that completes FF FF FF 7F returns Synced when the decoder
\* was receiving and NewSync otherwise, and leaves it RXING with byteCount
\* 0, the latch cleared and lastPacket set to the time of the call
C4_SyncMatch ==
    (Pumped /\ t.syncMonitor = SYNCPATTERN) =>
        /\ ev = IF prev.t.state = "TPIU_RXING"
                THEN "TPIU_EV_SYNCED" ELSE "TPIU_EV_NEWSYNC"
        /\ t.state = "TPIU_RXING"
        /\ t.byteCount = 0
        /\ ~t.got_lowbits
        /\ t.lastPacket = prev.now

\* the sync pattern ends in the middle of a partly received frame
C4_Witness ==
    /\ lastOp = "pump"
    /\ t.syncMonitor = SYNCPATTERN
    /\ prev.t.state = "TPIU_RXING"
    /\ prev.t.byteCount > 0
    /\ prev.t.got_lowbits
    /\ prev.now > 0
    /\ ev = "TPIU_EV_SYNCED"

\* the most recent pump completed a 16-byte frame
CompletedFrame ==
    /\ Pumped
    /\ prev.t.state = "TPIU_RXING"
    /\ prev.t.got_lowbits
    /\ prev.t.byteCount = TPIU_PACKET_LEN - 2
    /\ t.syncMonitor # SYNCPATTERN
    /\ ~(LastByte = 127 /\ prev.t.rxedPacket[prev.t.byteCount] = 255)

C7_GetPacketOnlyAfterRxedPacket ==
    (lastOp = "get_packet" /\ pOk) =>
        (prev.op = "pump" /\ ev = "TPIU_EV_RXEDPACKET")

(***************************************************************************)
(* Properties of frames and packets                                        *)
(***************************************************************************)
\* the test has been pumped to its end
Fed == pending = <<>>

TestFrame == EncodeFrame(test.items, 0)

\* the items fill one frame and the frame reaches the decoder as 16 bytes
Encodable ==
    /\ TestFrame.exact
    /\ ~HasHalfSync(TestFrame.frame)
    /\ ~HasSyncPattern(TestFrame.frame)

\* C2 as claimed: every sequence of up to 15 items comes back from its
\* frame
C2_RoundTripAnyItems ==
    (test.kind = "items" /\ Fed) =>
        (ev = "TPIU_EV_RXEDPACKET" /\ pOk /\ p = test.items)

\* C2: items that fill one frame, whose frame has no half-sync pair and no
\* sync pattern, come back from the frame unchanged and in order
C2_RoundTrip ==
    (test.kind = "items" /\ Fed /\ Encodable) =>
        (ev = "TPIU_EV_RXEDPACKET" /\ pOk /\ p = test.items)

\* a round trip with a stream change and odd data bytes in even positions
C2_Witness ==
    /\ test.kind = "items"
    /\ Fed
    /\ Encodable
    /\ p = test.items
    /\ \E i \in 1..Len(test.items) : test.items[i].s # test.items[1].s
    /\ \E j \in 0..7 : Bit(t.rxedPacket[15], j) = 1 /\ ~IsChange(t.rxedPacket, 2 * j)

\* the data bytes of the items of stream k
RECURSIVE StreamData(_, _)
StreamData(items, k) ==
    IF items = <<>> THEN <<>>
    ELSE (IF Head(items).s = k THEN <<Head(items).d>> ELSE <<>>)
         \o StreamData(Tail(items), k)

RECURSIVE IsSubseq(_, _)
IsSubseq(a, b) ==
    IF a = <<>> THEN TRUE
    ELSE IF b = <<>> THEN FALSE
    ELSE IF Head(a) = Head(b) THEN IsSubseq(Tail(a), Tail(b))
    ELSE IsSubseq(a, Tail(b))

\* every byte without its least significant bit
Shr1(bytes) == [i \in 1..Len(bytes) |-> bytes[i] \div 2]

StreamsOut == {out[i].s : i \in 1..Len(out)}

\* C3 as claimed: the bytes emitted for a stream are a subsequence of B
C3_SubsequenceOfInput ==
    \A k \in StreamsOut : IsSubseq(StreamData(out, k), B)

\* C3: the bytes emitted for a stream are, up to the least significant bit
\* of each byte, a subsequence of B
C3_SubsequenceUpToLsb ==
    \A k \in StreamsOut : IsSubseq(Shr1(StreamData(out, k)), Shr1(B))

\* a byte was emitted whose value is nowhere in B
C3_Witness ==
    /\ ev = "TPIU_EV_RXEDPACKET"
    /\ \E i \in 1..Len(out) : \A k \in 1..Len(B) : B[k] # out[i].d

\* C6 as claimed: the nine bytes leave halfSyncCount at 1
C6_HalfSyncCounted ==
    (test.kind = "halfsync" /\ Fed) =>
        /\ t.state = "TPIU_RXING"
        /\ ev = "TPIU_EV_NEWSYNC"
        /\ t.stats.halfSyncCount = 1

\* C6: FF FF 7F FF 7F FF FF FF 7F on a fresh decoder returns None for the
\* first eight bytes and NewSync for the ninth, leaves the decoder RXING
\* and halfSyncCount at 0
C6_HalfSyncOnly ==
    (test.kind = "halfsync") =>
        IF B = HalfSyncScenario
        THEN /\ t.state = "TPIU_RXING"
             /\ ev = "TPIU_EV_NEWSYNC"
             /\ t.stats.halfSyncCount = 0
             /\ t.stats.syncCount = 1
        ELSE /\ t.state = "TPIU_UNSYNCED"
             /\ ev = "TPIU_EV_NONE"

C6_Witness ==
    /\ test.kind = "halfsync"
    /\ B = HalfSyncScenario
    /\ ev = "TPIU_EV_NEWSYNC"

\* C8: the packet is the frame read position by position (a stream change
\* in force from the next byte, or from the byte after it when its bit of
\* byte 15 is set; even data bytes with their bit of byte 15; odd bytes
\* unchanged; byte 15 never data), and the stream in force is carried from
\* one packet to the next
C8_FrameToPacket ==
    /\ t.currentStream = refStream
    /\ ev = "TPIU_EV_RXEDPACKET" => (pOk /\ p = refPkt)

\* a delayed change in byte 14 decides the stream of the next packet's
\* first item
C8_Witness ==
    /\ test.kind = "raw"
    /\ test.more
    /\ Fed
    /\ ev = "TPIU_EV_RXEDPACKET"
    /\ Bit(test.kinds, 7) = 1
    /\ Bit(test.lows, 7) = 1
    /\ p[1].s = RawFrame(test.kinds, test.lows)[15] \div 2
    /\ p[1].s = prev.t.currentStream
    /\ p[1].s # p[Len(p)].s


(***************************************************************************)
(* Properties of the post-mortem ring                                      *)
(***************************************************************************)
\* the number of bytes the ring holds
RingCount == Len(RingContents(r, options.buflen))

\* C9: rp and wp stay in [0, cap); the ring is empty iff rp = wp, full iff
\* (wp + 1) mod cap = rp, and never holds more than cap - 1 bytes: it
\* holds the last min(stored, cap - 1) bytes stored, or in single-shot
\* mode the first ones
C9_RingPointers ==
    /\ r.rp \in 0..(options.buflen - 1)
    /\ r.wp \in 0..(options.buflen - 1)
    /\ RingCount <= options.buflen - 1
    /\ (RingCount = 0) <=> (r.rp = r.wp)
    /\ (RingCount = options.buflen - 1)
          <=> ((r.wp + 1) % options.buflen = r.rp)
    /\ LET n == Len(ringIn)
           k == IF n < options.buflen - 1 THEN n ELSE options.buflen - 1
       IN RingContents(r, options.buflen) =
              IF r.singleShot THEN SubSeq(ringIn, 1, k)
              ELSE SubSeq(ringIn, n - k + 1, n)

\* a full ring whose pointers have wrapped, in running mode
C9_Witness ==
    /\ ringOp = "push"
    /\ ~r.singleShot
    /\ Len(ringIn) > options.buflen
    /\ r.wp < r.rp
    /\ (r.wp + 1) % options.buflen = r.rp
    /\ RingCount = options.buflen - 1

\* ten bytes 00..09 have just been pushed into an empty ring of capacity 8
\* in running mode
TenIntoEight ==
    /\ ringOp = "push"
    /\ ~options.useTPIU
    /\ options.buflen = 8
    /\ ~r.singleShot
    /\ ringIn = <<0, 1, 2, 3, 4, 5, 6, 7, 8, 9>>

\* C10 as claimed: the ring then holds the eight bytes 02..09 and is not
\* held
C10_LastEight ==
    TenIntoEight =>
        /\ RingContents(r, options.buflen) = <<2, 3, 4, 5, 6, 7, 8, 9>>
        /\ ~r.held

\* C10: the ring then holds the seven bytes 03..09, cap - 1 of them, with
\* rp = 3 and wp = 2, and is not held
C10_LastSeven ==
    TenIntoEight =>
        /\ RingContents(r, options.buflen) = <<3, 4, 5, 6, 7, 8, 9>>
        /\ r.rp = 3
        /\ r.wp = 2
        /\ ~r.held

C10_Witness ==
    /\ TenIntoEight
    /\ RingCount = 7
    /\ r.pmBuffer[2] = 2
    /\ ~r.held


\* single-shot mode: the ring holds the bytes stored since the last
\* release from cell 0 on, and the push that finds it full holds it
SingleShotRing ==
    r.singleShot =>
        /\ r.rp = 0
        /\ r.wp = Len(ringIn)
        /\ Len(ringIn) <= options.buflen - 1
        /\ RingContents(r, options.buflen) = ringIn
        /\ (ringOp = "single_shot_held") =>
               (r.held /\ Len(ringIn) = options.buflen - 1)

\* nine bytes 00..08 have gone through _processBlock in single-shot mode
\* with capacity 8, and no key was pressed
NineIntoEight ==
    /\ ~options.useTPIU
    /\ options.buflen = 8
    /\ r.singleShot
    /\ keysLeft = MaxKeys
    /\ r.newTotalBytes = 9

\* while held and not released, no pass changes the pointers or the ring
HeldRingStays ==
    (r.singleShot /\ r.held /\ r'.held) =>
        /\ r'.rp = r.rp
        /\ r'.wp = r.wp
        /\ r'.pmBuffer = r.pmBuffer
        /\ ringIn' = ringIn

\* C11: in single-shot mode the first push that would bring wp onto rp
\* sets held and leaves rp and wp where they are, and until the release no
\* byte read changes rp, wp or the stored bytes; with capacity 8 and nine
\* bytes pushed the ring is held and the ninth byte is not in it
C11_SingleShotHolds ==
    /\ [](SingleShotRing)
    /\ [](NineIntoEight =>
            (r.held /\ \A i \in 1..Len(ringIn) : ringIn[i] # 8))
    /\ [][HeldRingStays]_vars

\* a block of two bytes whose first byte found the ring full
C11_Witness ==
    /\ NineIntoEight
    /\ ringOp = "single_shot_held"
    /\ r.held
    /\ r.wp = 7
    /\ ringIn = <<0, 1, 2, 3, 4, 5, 6>>
    /\ r.pmBuffer[7] = 7


\* the pass of a hold key that finds the ring held, the input not a file
ReleaseStep == keysLeft' = keysLeft - 1 /\ r.held /\ ~options.file

ReleaseResets ==
    ReleaseStep => (r'.rp = 0 /\ r'.wp = 0 /\ ~r'.held /\ ringIn' = <<>>)

\* single-shot mode with capacity 8: the one key pressed was a release and
\* two bytes have been pushed since
TwoAfterRelease ==
    /\ ~options.useTPIU
    /\ options.buflen = 8
    /\ r.singleShot
    /\ keysLeft = MaxKeys - 1
    /\ ~r.held
    /\ Len(ringIn) = 2

\* C12: the release sets rp = wp = 0 and held = false whatever the ring
\* held before; after a single-shot wrap with capacity 8, a release and
\* two bytes pushed give rp = 0 and wp = 2
C12_Release ==
    /\ [][ReleaseResets]_vars
    /\ [](TwoAfterRelease =>
            (r.rp = 0 /\ r.wp = 2 /\ RingContents(r, 8) = ringIn))

\* the ring was held by the eighth byte, released, and took bytes 08 09
C12_Witness ==
    /\ TwoAfterRelease
    /\ r.newTotalBytes = 10
    /\ ringIn = <<8, 9>>
    /\ r.rp = 0
    /\ r.wp = 2
    /\ r.pmBuffer[7] = 7


\* the slices the last pass pumped into the ETM decoder
IsPump(c) == c.op = "pump"

Pumps == SelectSeq(etmCalls, IsPump)

RECURSIVE PumpedBytes(_)
PumpedBytes(calls) ==
    IF calls = <<>> THEN <<>>
    ELSE Head(calls).bytes \o PumpedBytes(Tail(calls))

\* the last pass dumped the ring and reached the ETM decoder
Drained == ringOp = "dump" /\ etmCalls # <<>>

DrainSlices ==
    Drained =>
        /\ PumpedBytes(Pumps) = RingContents(r, options.buflen)
        /\ Len(PumpedBytes(Pumps)) =
               ((r.wp + options.buflen) - r.rp) % options.buflen
        /\ \A i \in 1..Len(Pumps) :
               Pumps[i].from + Pumps[i].len <= options.buflen
        /\ IF r.wp < r.rp /\ r.wp > 0
           THEN /\ Len(Pumps) = 2
                /\ Pumps[1].from = r.rp
                /\ Pumps[1].len = options.buflen - r.rp
                /\ Pumps[2].from = 0
                /\ Pumps[2].len = r.wp
           ELSE /\ Len(Pumps) = 1
                /\ Pumps[1].from = r.rp

DrainKeepsRing ==
    (ringOp' = "dump") =>
        (r'.rp = r.rp /\ r'.wp = r.wp /\ r'.pmBuffer = r.pmBuffer)

\* C13: a dump that reaches the ETM decoder pumps one slice of the ring,
\* or two when the stored bytes wrap (rp to the end, then 0 to wp - 1);
\* the slices together are the stored bytes from rp up to wp in order,
\* and the dump leaves rp, wp and the ring as they were
C13_DrainSlices ==
    /\ [](DrainSlices)
    /\ [][DrainKeepsRing]_vars

\* a wrapped ring drained in two slices
C13_Witness ==
    /\ Drained
    /\ Len(Pumps) = 2
    /\ r.wp < r.rp
    /\ Pumps[2].bytes # <<>>
    /\ r.held


\* a wrap has dropped at least one byte since the start or the last
\* release
Discarded == Len(ringIn) > options.buflen - 1

Desyncs == {i \in 1..Len(etmCalls) : etmCalls[i].op = "force_sync"}

\* C14: in running mode, after a wrap has dropped a byte, the dump calls
\* ETMDecoderForceSync(false) once, before it pumps any byte of the ring;
\* in single-shot mode the dump never calls it
C14_DesyncAfterWrap ==
    Drained =>
        IF r.singleShot THEN Desyncs = {}
        ELSE Discarded =>
                 (etmCalls[1] = EtmDesync /\ Desyncs = {1}
                  /\ Len(etmCalls) > 1)

\* a wrapped running ring dumped in two slices after the desync
C14_Witness ==
    /\ Drained
    /\ ~r.singleShot
    /\ Discarded
    /\ Len(etmCalls) = 3
    /\ etmCalls[1].op = "force_sync"
    /\ etmCalls[2].op = "pump"


\* the bytes the ring is to be given: the data of the decoded items of the
\* selected channel, or every byte received when TPIU is off
RingSource ==
    IF options.useTPIU THEN StreamData(decoded, options.channel)
    ELSE taken

\* C15: the bytes pushed into the ring while not held are, with TPIU on,
\* the data bytes of the decoded items of the configured channel in packet
\* order and nothing of any other stream, and with TPIU off every byte
\* received in input order; in single-shot mode up to the push that holds
\* the ring
C15_RingSource ==
    IF r.singleShot
    THEN /\ Len(ringIn) <= Len(RingSource)
         /\ ringIn = SubSeq(RingSource, 1, Len(ringIn))
         /\ Len(ringIn) < Len(RingSource) => r.held
    ELSE ringIn = RingSource

\* two packets have been decoded, with items of the selected channel and
\* of others, and the ring has wrapped
C15_Witness ==
    /\ options.useTPIU
    /\ ~r.singleShot
    /\ ringOp = "push"
    /\ Len(decoded) = 26
    /\ Len(ringIn) = 12
    /\ \E i \in 1..Len(decoded) : decoded[i].s # options.channel
    /\ Discarded


\* a hang interval ends in which no byte was added to a ring that is not
\* empty
HangFound ==
    /\ HangCheck
    /\ r.newTotalBytes = r.oldTotalHangBytes
    /\ r.rp # r.wp

\* the pass dumps the ring and holds it
DumpsAndHolds ==
    /\ ringOp' = "dump"
    /\ r'.held
    /\ etmCalls' \in {<<>>, dumpBuffer(r, options)}

PumpIdx(calls) == {i \in 1..Len(calls) : calls[i].op = "ITMPump"}

\* the position of the first ITMPump after position i, or one past the end
NextPumpIdx(calls, i) ==
    LET later == {j \in PumpIdx(calls) : j > i}
    IN IF later = {} THEN Len(calls) + 1
       ELSE CHOOSE j \in later : \A k \in later : j <= k

\* the handler invocations that follow the ITMPump at position i, before
\* the next ITMPump
HandlersAfter(calls, i) ==
    {j \in (i + 1)..(NextPumpIdx(calls, i) - 1) : calls[j].op = "handler"}

\* the message the ITM decoder handed out for the ITMPump at position i
DecodedAt(calls, i) == calls[i + 1].arg.msg

\* C17: an ITMPump that returns PACKET_RXED is followed by exactly one
\* handler invocation, of the table entry of the decoded message's type and
\* on that message, when the entry is not NULL, and by none when it is
\* NULL; an ITMPump that returns NONE, SYNCED, UNSYNCED, OVERFLOW or ERROR is
\* followed by no handler invocation, and no handler runs without an
\* ITMPump before it.
C17_OneHandlerPerPacket ==
    /\ \A j \in 1..Len(fifoCalls) :
           fifoCalls[j].op = "handler"
               => \E i \in PumpIdx(fifoCalls) : i < j
    /\ \A i \in PumpIdx(fifoCalls) :
           LET hs == HandlersAfter(fifoCalls, i)
           IN IF fifoCalls[i].arg.ret = "ITM_EV_PACKET_RXED"
              THEN /\ i < Len(fifoCalls)
                   /\ fifoCalls[i + 1].op = "ITMGetDecodedPacket"
                   /\ LET m == DecodedAt(fifoCalls, i)
                          fn == handlers[m.msgtype]
                      IN IF fn # "NULL"
                         THEN \E j \in hs :
                                  /\ hs = {j}
                                  /\ fifoCalls[j].arg = [fn |-> fn,
                                                         msg |-> m]
                         ELSE hs = {}
              ELSE hs = {}

\* one protocol pump took a packet whose first ITM byte completed a
\* timestamp message and whose second completed a message of unknown type
C17_Witness ==
    /\ fifo.useTPIU
    /\ ev = "TPIU_EV_RXEDPACKET"
    /\ \E i, k \in PumpIdx(fifoCalls) :
           /\ i < k
           /\ fifoCalls[i].arg.ret = "ITM_EV_PACKET_RXED"
           /\ DecodedAt(fifoCalls, i).msgtype = "MSG_TS"
           /\ HandlersAfter(fifoCalls, i) # {}
           /\ fifoCalls[k].arg.ret = "ITM_EV_PACKET_RXED"
           /\ DecodedAt(fifoCalls, k).msgtype = "MSG_UNKNOWN"
           /\ HandlersAfter(fifoCalls, k) = {}

\* the bytes given to ITMPump by the calls of one protocol pump, in order
ItmBytes(calls) ==
    LET pumps == SelectSeq(calls, LAMBDA e : e.op = "ITMPump")
    IN [k \in 1..Len(pumps) |-> pumps[k].arg.c]

\* the messages the handlers were invoked on, in order
Handed(calls) ==
    LET hs == SelectSeq(calls, LAMBDA e : e.op = "handler")
    IN [k \in 1..Len(hs) |-> hs[k].arg.msg]

\* the messages the ITM decoder completed whose type has a handler, in order
Completed(calls) ==
    LET ms == SelectSeq(calls,
                        LAMBDA e : /\ e.op = "ITMGetDecodedPacket"
                                   /\ handlers[e.arg.msg.msgtype] # "NULL")
    IN [k \in 1..Len(ms) |-> ms[k].arg.msg]

\* the bytes one itmfifoProtocolPump owes the ITM decoder: the byte itself
\* without TPIU, the ITM stream of the packet that the byte completed with
\* TPIU
BytesDue ==
    IF fifo.useTPIU
    THEN IF ev' = "TPIU_EV_RXEDPACKET"
         THEN LET its == OnStream(p', fifo.tpiuITMChannel)
              IN [k \in 1..Len(its) |-> its[k].d]
         ELSE <<>>
    ELSE <<Head(fifoSrc)>>

\* every handler invocation comes directly after the ITMPump that returned
\* PACKET_RXED and the ITMGetDecodedPacket that delivered its message
HandlerFollowsPump(calls) ==
    \A j \in 1..Len(calls) :
        calls[j].op = "handler"
            => /\ j > 2
               /\ calls[j - 1] = Call("ITMGetDecodedPacket",
                                      [msg |-> calls[j].arg.msg])
               /\ calls[j - 2].op = "ITMPump"
               /\ calls[j - 2].arg.ret = "ITM_EV_PACKET_RXED"

DispatchStep ==
    fifoSrc' # fifoSrc
        => /\ ItmBytes(fifoCalls') = BytesDue
           /\ HandlerFollowsPump(fifoCalls')
           /\ Handed(fifoCalls') = Completed(fifoCalls')

\* C18: within one protocol pump the ITM decoder is given the bytes due to
\* it in stream order, each message it completes is handed to its handler
\* directly after the ITMPump of the byte that completed it and before the
\* next byte is pumped, and the handlers see the completed messages in the
\* order of completion, none left out.
C18_DispatchOrder == [][DispatchStep]_vars

\* a packet whose two ITM bytes each completed a message: a software
\* message, then an exception message, handed over in that order
C18_Witness ==
    /\ fifo.useTPIU
    /\ ItmBytes(fifoCalls) = <<16, 32>>
    /\ Handed(fifoCalls) = <<Msg("MSG_SOFTWARE", 0), Msg("MSG_EXCEPTION", 0)>>

\* the calls that follow position j up to the next ITMPump: what the handler
\* invoked at j did
EffectsAfter(calls, j) ==
    SubSeq(calls, j + 1, NextPumpIdx(calls, j) - 1)

\* the positions at which _handleSW is invoked
SWIdx(calls) ==
    {j \in 1..Len(calls) : /\ calls[j].op = "handler"
                           /\ calls[j].arg.fn = "_handleSW"}

\* C19: a software message on the filewriter channel while the filewriter
\* is enabled goes to filewriterProcess and to no pipe; any other software
\* message is written once, as a swMsg, to the pipe of channel srcAddr when
\* srcAddr is below NUM_CHANNELS and that pipe is open, and otherwise
\* causes no call at all.
C19_SoftwareRouting ==
    \A j \in SWIdx(fifoCalls) :
        LET m == fifoCalls[j].arg.msg
            done == EffectsAfter(fifoCalls, j)
        IN /\ m.msgtype = "MSG_SOFTWARE"
           /\ IF m.srcAddr = FW_CHANNEL /\ fifo.filewriter
              THEN done = <<Call("filewriterProcess", [msg |-> m])>>
              ELSE IF m.srcAddr < NUM_CHANNELS /\ m.srcAddr \in fifo.open
                   THEN done = <<Call("write", [chan |-> m.srcAddr,
                                                what |-> "swMsg",
                                                msg |-> m])>>
                   ELSE done = <<>>

\* one packet brought a software message of the filewriter channel, whose
\* pipe is open too, and a software message of channel 0: the first went to
\* the filewriter only, the second to the pipe of channel 0
C19_Witness ==
    /\ fifo.filewriter
    /\ {0, FW_CHANNEL} \subseteq fifo.open
    /\ \E i, j \in SWIdx(fifoCalls) :
           /\ i < j
           /\ fifoCalls[i].arg.msg.srcAddr = FW_CHANNEL
           /\ EffectsAfter(fifoCalls, i)
                  = <<Call("filewriterProcess",
                           [msg |-> fifoCalls[i].arg.msg])>>
           /\ fifoCalls[j].arg.msg.srcAddr = 0
           /\ Len(EffectsAfter(fifoCalls, j)) = 1
           /\ EffectsAfter(fifoCalls, j)[1].op = "write"
           /\ EffectsAfter(fifoCalls, j)[1].arg.chan = 0

\* the ITMDecoderForceSync calls among the calls of one protocol pump
ForceSyncs(calls) == SelectSeq(calls, LAMBDA e : e.op = "ITMDecoderForceSync")

\* one itmfifoProtocolPump with TPIU in use: what the TPIU decoder returned
\* for the byte decides the calls made on the ITM decoder
CouplingStep ==
    (fifo.useTPIU /\ fifoSrc' # fifoSrc)
        => LET e == TPIUPump(t, Head(fifoSrc), now).r
           IN /\ e \in {"TPIU_EV_NEWSYNC", "TPIU_EV_SYNCED"}
                     => fifoCalls' = <<Call("ITMDecoderForceSync",
                                            [isSynced |-> TRUE])>>
              /\ e = "TPIU_EV_UNSYNCED"
                     => fifoCalls' = <<Call("ITMDecoderForceSync",
                                            [isSynced |-> FALSE])>>
              /\ e \in {"TPIU_EV_NONE", "TPIU_EV_RXING"}
                     => fifoCalls' = <<>>
              /\ e = "TPIU_EV_RXEDPACKET"
                     => ForceSyncs(fifoCalls') = <<>>

\* C20: when TPIUPump returns NEWSYNC or SYNCED the protocol pump calls
\* ITMDecoderForceSync(true), when it returns UNSYNCED it calls
\* ITMDecoderForceSync(false), in both cases as its only call, so before any
\* byte of a later packet is pumped into the ITM decoder; when it returns
\* NONE or RXING no call is made on the ITM decoder.
C20_DecoderCoupling == [][CouplingStep]_vars

\* the frame took too long: the TPIU decoder lost sync and the ITM decoder
\* was forced out of sync
C20_Witness ==
    /\ fifo.useTPIU
    /\ ev = "TPIU_EV_UNSYNCED"
    /\ t.stats.lostSync = 1
    /\ fifoCalls = <<Call("ITMDecoderForceSync", [isSynced |-> FALSE])>>

(***************************************************************************)
(* Properties of the fifo threads and of itmfifoShutdown                   *)
(***************************************************************************)
AllExited == \A ch \in SinkChans : thread[ch].pc = "exited"

\* C21: once itmfifoShutdown has been called, it closes the write ends and
\* signals the threads, every fifo thread, of a software channel and of the
\* hardware channel, eventually exits, and itmfifoShutdown returns after
\* having joined them all.
C21_ShutdownLiveness ==
    (shut.pc # "running") ~> (shut.pc = "returned" /\ AllExited)

\* shutdown has returned; the software thread had been waiting in open for
\* a reader and was ended by the signal, the hardware thread ended on a
\* read of 0 from its closed pipe
C21_Witness ==
    /\ shut.pc = "returned"
    /\ thread[0].exit = "signal"
    /\ thread[0].opfile = "none"
    /\ thread[HW_CHANNEL].exit = "eof"

\* the write of the thread of channel ch can only fail: its output was not
\* opened, or it is a fifo that nobody reads any more
WriteMustFail(ch) ==
    /\ ch = HW_CHANNEL
    /\ thread[ch].pc = "write"
    /\ thread[ch].opfile = "bad" \/ (~permafile /\ ~reader[ch])

\* the thread of channel ch does its write
Writes(ch) == thread[ch].pc = "write" /\ thread'[ch] # thread[ch]
                  /\ thread'[ch].exit # "signal"

\* C22: when the write of a fifo thread to its output fails, the thread
\* leaves its inner loop and closes the output (to open it again, the pipe
\* still being open); a thread ends only on a read of 0 from its pipe.
C22_WriteFailureReopens ==
    [][\A ch \in SinkChans :
          /\ (WriteMustFail(ch) /\ Writes(ch)) => thread'[ch].pc = "close"
          /\ (thread[ch].pc = "close" /\ thread'[ch].pc = "exited"
                  /\ thread'[ch].exit = "eof")
                 => thread[ch].readDataLen = 0]_vars

\* the number of the message the dispatcher writes next
NextId == MaxSinkMsgs - budget.msgs + 1

\* with permafile off a write into a pipe never waits, and what the pipes
\* took is, per channel and in the order of the writes, what the thread has
\* read followed by what the pipe still holds; no refused message is among
\* them
PipesKeepOrder ==
    \A ch \in SinkChans :
        /\ ~permafile
               => PipeWrite(pipe[ch], permafile, NextId).res # "blocked"
        /\ disp[ch].read \o pipe[ch] = disp[ch].put
        /\ \A i \in 1..Len(disp[ch].lost), j \in 1..Len(disp[ch].put) :
               disp[ch].lost[i] # disp[ch].put[j]
        /\ \A i, j \in 1..Len(disp[ch].put) :
               i < j => disp[ch].put[i] < disp[ch].put[j]

\* a write into a full pipe with permafile off: the message is lost, the
\* pipe and the thread are as before, and the dispatcher has gone on
LossStep ==
    \A ch \in SinkChans :
        (/\ ~permafile
         /\ Len(pipe[ch]) = PipeCap
         /\ disp'[ch] # disp[ch]
         /\ budget'.msgs # budget.msgs)
            => /\ disp'[ch].lost = Append(disp[ch].lost, NextId)
               /\ disp'[ch].put = disp[ch].put
               /\ pipe' = pipe
               /\ thread' = thread
               /\ budget'.msgs = budget.msgs - 1

\* C23: with permafile off the dispatcher's write into a channel pipe never
\* waits: into a full pipe, which its thread is not draining, the write
\* returns at once, that message is lost and the dispatcher goes on; the
\* messages the pipe took reach the thread in the order they were written.
C23_PumpNeverBlocks == []PipesKeepOrder /\ [][LossStep]_vars

\* the thread of channel 0 waits for a reader of its fifo: its pipe took
\* two messages and refused the third; when the reader came the thread
\* read the two in the order they were written
C23_Witness ==
    /\ ~permafile
    /\ disp[0].put = <<1, 2>>
    /\ disp[0].lost = <<3>>
    /\ disp[0].read = <<1, 2>>

\* the bytes of a 32-bit value, least significant first, truncated to n
ValueBytes(v, n) == SubSeq(v, 1, n)

\* C24: for a channel with no format string the bytes written for a
\* message are that message's value bytes (all four, or the first len), so
\* the output depends on the message alone.
C24_RawOutputFromMessage ==
    (fmtOut # <<>> /\ fmtIn.presFormat.null)
        => \/ fmtOut.out = fmtIn.m.value
           \/ fmtOut.out = ValueBytes(fmtIn.m.value, fmtIn.m.len)

\* the format expanded for the bytes l, l + 1, ... of m, least significant
\* byte first
RECURSIVE PerByteText(_, _, _)
PerByteText(fm, m, l) ==
    IF l >= m.len THEN <<>>
    ELSE Expand(fm, m.value[l + 1]) \o PerByteText(fm, m, l + 1)

\* sequence a is the start of sequence b
IsPrefix(a, b) == Len(a) <= Len(b) /\ \A i \in 1..Len(a) : a[i] = b[i]

\* C25: with a %c format a message of len bytes has the format expanded
\* exactly len times, once per payload byte and least significant byte
\* first, and at most MAX_STRING_LENGTH bytes are written for it (a text
\* that is cut short ends in the terminator snprintf stores).
C25_PerByteExpansion ==
    (fmtOut # <<>> /\ ~fmtIn.presFormat.null
                  /\ HasConv(fmtIn.presFormat.s, LowerC))
        => /\ ~fmtOut.ub
           /\ ~fmtOut.killed
           /\ fmtOut.expansions = fmtIn.m.len
           /\ Len(fmtOut.out) <= MAX_STRING_LENGTH
           /\ LET tx == PerByteText(fmtIn.presFormat.s, fmtIn.m, 0)
              IN IF Len(tx) < MAX_STRING_LENGTH THEN fmtOut.out = tx
                 ELSE IsPrefix(SubSeq(fmtOut.out, 1, MAX_STRING_LENGTH - 1), tx)

\* a pass of orbmortem's main loop in which the read from the network
\* source returns no bytes: the peer has closed the connection
SocketReadEnds ==
    /\ ~options.file
    /\ sourceOpen
    /\ ringOp' \in {"read", "read_held"}
    /\ src' = src

\* C26: when a read from the network source returns end-of-stream the
\* session closes the connection (and then connects again after a
\* backoff), and no bytes are pumped from the failed read.
C26_InputLossReconnects ==
    [][SocketReadEnds => (~sourceOpen' /\ taken' = taken /\ t' = t)]_vars

\* C27: orbcat exits with status 0 when it ends normally, in particular on
\* reading the input file to its end with -e; with -1 on an option error;
\* with -4 when the input file cannot be opened.
C27_ExitCodes ==
    orbcat.exited
        => /\ orbcat.why = "option_error" => orbcat.status = -1
           /\ orbcat.why = "file_open_error" => orbcat.status = -4
           /\ orbcat.why \in {"file_end", "socket_end"} => orbcat.status = 0

\* the syncs gained and lost that decoder d has counted
SyncEvents(d) == d.stats.syncCount + d.stats.lostSync

\* C28: over any sequence of pump and force_sync calls the sum
\* syncCount + lostSync never decreases from one call to the next.
C28_SyncSumMonotone == [][SyncEvents(t') >= SyncEvents(t)]_vars

\* a pump has lost sync on a stale frame after a forced sync was counted
C28_Witness ==
    /\ forced
    /\ lastOp = "pump"
    /\ ev = "TPIU_EV_UNSYNCED"
    /\ t.stats.syncCount >= 1
    /\ t.stats.lostSync >= 1
    /\ SyncEvents(t) = SyncEvents(prev.t) + 1

\* the time increments of the Timestamp messages handled in calls
RECURSIVE TSIncs(_)
TSIncs(calls) ==
    IF calls = <<>> THEN 0
    ELSE (IF Head(calls).op = "handler" /\ Head(calls).arg.fn = "_handleTS"
          THEN Head(calls).arg.msg.timeInc ELSE 0)
         + TSIncs(Tail(calls))

\* a step of the dispatcher adds to its time the increments of the
\* Timestamp messages it handles, and nothing else changes it
TimeStep ==
    /\ fifo'.timeStamp >= fifo.timeStamp
    /\ fifo'.timeStamp =
           fifo.timeStamp
           + (IF fifoSrc' # fifoSrc THEN TSIncs(fifoCalls') ELSE 0)

SameAccepted(d, e, n) ==
    \A i \in 0..(n - 1) : e.rxedPacket[i] = d.rxedPacket[i]

\* a pump of the second byte of a pair while RXING, the first byte having
\* been pumped by the call before it, and the byte not completing the sync
\* pattern
SecondOfPair ==
    /\ B' # B
    /\ lastOp = "pump"
    /\ t.state = "TPIU_RXING"
    /\ t.got_lowbits
    /\ ev' \notin {"TPIU_EV_SYNCED", "TPIU_EV_NEWSYNC"}

\* what the pump of the second byte of a pair does
HalfSyncStep ==
    SecondOfPair =>
        LET first == B[Len(B)]
            second == B'[Len(B')]
        IN IF first = HALFSYNC_LOW /\ second = HALFSYNC_HIGH
           THEN /\ ev' = "TPIU_EV_NONE"
                /\ t'.stats.halfSyncCount = t.stats.halfSyncCount + 1
                /\ t'.byteCount = t.byteCount
                /\ SameAccepted(t, t', t.byteCount)
                /\ ~t'.got_lowbits
           ELSE /\ t'.rxedPacket[t.byteCount] = first
                /\ t'.rxedPacket[t.byteCount + 1] = second
                /\ SameAccepted(t, t', t.byteCount)
                /\ t'.byteCount = (t.byteCount + 2) % TPIU_PACKET_LEN
                /\ t'.stats.halfSyncCount = t.stats.halfSyncCount
                /\ ~t'.got_lowbits

\* C30: while RXING a pair FF 7F that does not complete the sync pattern
\* is discarded (pump returns None, halfSyncCount goes up by one, byteCount
\* and the frame bytes accepted so far stay, the latch is cleared); any
\* other pair is stored and moves byteCount on by two, a completed frame
\* setting it back to 0.
C30_HalfSyncFiltering == [][HalfSyncStep]_vars

\* a half-sync pair has just been discarded in the middle of a frame
C30_Witness ==
    /\ lastOp = "pump"
    /\ prev.op = "pump"
    /\ ev = "TPIU_EV_NONE"
    /\ t.state = "TPIU_RXING"
    /\ ~t.got_lowbits
    /\ t.byteCount > 0
    /\ t.stats.halfSyncCount = prev.t.stats.halfSyncCount + 1
    /\ Len(B) >= 2
    /\ B[Len(B) - 1] = HALFSYNC_LOW
    /\ B[Len(B)] = HALFSYNC_HIGH

\* a step that is a call of TPIUDecoderForceSync
IsForceSync == lastOp' = "force_sync" /\ callsLeft' # callsLeft

\* what a forced sync does to the decoder
ForceSyncStep ==
    IsForceSync =>
        /\ t'.state = "TPIU_RXING"
        /\ t'.byteCount \in ForceOffsets
        /\ t'.stats.syncCount =
               t.stats.syncCount
               + (IF t.state = "TPIU_UNSYNCED" THEN 1 ELSE 0)
        /\ t'.lastPacket = now
        /\ t'.stats.lostSync = t.stats.lostSync
        /\ t'.stats.packets = t.stats.packets
        /\ t'.stats.halfSyncCount = t.stats.halfSyncCount
        /\ t'.stats.error = t.stats.error
        /\ t'.currentStream = t.currentStream
        /\ t'.syncMonitor = t.syncMonitor

StatsSync ==
    /\ B' # B
    /\ ev' \in {"TPIU_EV_SYNCED", "TPIU_EV_NEWSYNC"}
    /\ t.byteCount = 14
    /\ t.rxedPacket[0] = STAT_SYNC_BYTE

\* the link statistics that frame fr carries; totalFrames as its four
\* bytes, most significant first
StatsOf(fr) ==
    [pendingCount |-> fr[1] + 256 * fr[2],
     leds |-> fr[5],
     lostFrames |-> fr[6] + 256 * fr[7],
     totalFrames |-> <<fr[11], fr[10], fr[9], fr[8]>>]

CommsStatsStep ==
    IF StatsSync
    THEN /\ t'.commsStats = StatsOf(t.rxedPacket)
         /\ ev' # "TPIU_EV_RXEDPACKET"
         /\ t'.byteCount = 0
         /\ t'.stats.packets = t.stats.packets
    ELSE t'.commsStats = t.commsStats

\* C32: when the sync pattern completes with exactly 14 bytes of the frame
\* collected and the first byte 0xA6, the frame is decoded as link
\* statistics (pendingCount, leds, lostFrames, totalFrames from bytes 1-2,
\* 5, 6-7, 8-11, low byte first); every other pump leaves the stored
\* statistics alone, and a statistics frame gives no RxedPacket.
C32_CommsStats == [][CommsStatsStep]_vars

\* a statistics frame with the top bit of totalFrames set has been decoded
\* and the frame after it delivered as a packet, the statistics kept
C32_Witness ==
    /\ test.kind = "stats"
    /\ ev = "TPIU_EV_RXEDPACKET"
    /\ t.stats.packets = 1
    /\ t.commsStats.totalFrames[1] = 200
    /\ t.commsStats.pendingCount = 34 + 256 * 48
    /\ t.commsStats.leds = 96
    /\ t.commsStats.lostFrames = 113 + 256 * 130

\* C33: with forced syncs at offsets 0..15 every write into the frame uses
\* an index in 0..15, and between calls byteCount is at most 14 while
\* RXING.
C33_ScratchBounds ==
    /\ ~ScratchOver
    /\ t.state = "TPIU_RXING" => t.byteCount <= TPIU_PACKET_LEN - 2

\* the bytes pumped since the forced sync that is being followed
SinceForce == SubSeq(B, Len(B) - mark.n + 1, Len(B))

\* the bytes pumped since the forced sync hold no half sync, and no sync
\* pattern or half sync has been counted since
CleanSinceForce ==
    /\ \A i \in 1..(mark.n - 1) :
           ~(SinceForce[i] = HALFSYNC_LOW /\ SinceForce[i + 1] = HALFSYNC_HIGH)
    /\ t.stats.syncCount = mark.stats.syncCount
    /\ t.stats.halfSyncCount = mark.stats.halfSyncCount

\* the pump of the last byte has completed the first frame since the forced
\* sync
FirstFrameSinceForce ==
    /\ lastOp = "pump"
    /\ ev = "TPIU_EV_RXEDPACKET"
    /\ t.stats.packets = mark.stats.packets + 1

\* C34: after a forced sync at offset 0, at any point of the byte stream,
\* with no half sync and no sync pattern since, the first frame is completed
\* by the 16th byte pumped since and holds the 16 bytes pumped since, in
\* order.
C34_ForceSyncRealigns ==
    (mark.offset = 0 /\ CleanSinceForce /\ ~ScratchOver) =>
        /\ FirstFrameSinceForce =>
               /\ mark.n = TPIU_PACKET_LEN
               /\ SinceForce = [i \in 1..TPIU_PACKET_LEN |-> t.rxedPacket[i - 1]]
        /\ (mark.n = TPIU_PACKET_LEN /\ lastOp = "pump") =>
               FirstFrameSinceForce

\* the last step was a pump that returned TPIU_EV_RXEDPACKET
JustRxedPacket ==
    /\ lastOp = "pump"
    /\ ev = "TPIU_EV_RXEDPACKET"

\* C35: right after a pump that returns RxedPacket byteCount is 0 and
\* TPIUGetPacket with a destination returns true, filling the destination
\* with the packet of the frame just completed whatever it held before.
C35_PacketReadyAfterRxed ==
    JustRxedPacket =>
        /\ t.byteCount = 0
        /\ TPIUGetPacket(t, p).ok
        /\ TPIUGetPacket(t, p).p =
               GetPacketLoop(t.rxedPacket, 0,
                             t.rxedPacket[TPIU_PACKET_LEN - 1],
                             t.currentStream, NO_CHANNEL_CHANGE, <<>>).packet

\* a frame has been completed while the destination still holds the packet
\* of an earlier call, a different one
C35_Witness ==
    /\ JustRxedPacket
    /\ pOk
    /\ p # <<>>
    /\ TPIUGetPacket(t, p).p # p

\* the even positions of the frame, and those whose byte has its low bit set
EvenPositions == {i \in 0..(TPIU_PACKET_LEN - 2) : i % 2 = 0}
ChangeBytes(d) == {i \in EvenPositions : d.rxedPacket[i] % 2 = 1}

\* the room of struct TPIUPacket for items
PacketRoom == TPIU_PACKET_LEN - 1

\* the last step has taken the packet of a frame out of the decoder
PacketTaken ==
    /\ lastOp = "protocol_pump"
    /\ ev = "TPIU_EV_RXEDPACKET"
    /\ pOk

\* C36: the packet of a frame has 15 items less one for every even position
\* whose byte has its low bit set, so between 7 and 15, within the packet
\* array; the stream of every item is the one carried in or the upper seven
\* bits of such a byte.
C36_PacketLength ==
    PacketTaken =>
        /\ Len(p) = PacketRoom - Cardinality(ChangeBytes(t))
        /\ Len(p) >= 7
        /\ Len(p) <= PacketRoom
        /\ \A g \in 1..Len(p) :
               \/ p[g].s = prev.t.currentStream
               \/ \E i \in ChangeBytes(t) :
                      /\ p[g].s = t.rxedPacket[i] \div 2
                      /\ p[g].s \in 0..127

\* a packet of 7 items has been taken, all eight even bytes stream changes
C36_Witness ==
    /\ PacketTaken
    /\ Len(p) = 7
    /\ \E g \in 1..Len(p) : p[g].s # prev.t.currentStream

\* the last k elements of a sequence, all of it when it is shorter
LastOf(s, k) ==
    IF Len(s) <= k THEN s ELSE SubSeq(s, Len(s) - k + 1, Len(s))

\* a block of at least one byte is read and processed in running mode
RunningBlock ==
    /\ src' # src
    /\ ~r.held
    /\ ~r.singleShot

\* C37: in running mode, once a block has been pushed, the bytes readable
\* from rp to wp are the last min(n, cap - 1) of the n bytes pushed since the
\* ring was empty, in the order of the pushes, and the ring is not held.
C37_NewestWins ==
    [][RunningBlock =>
          /\ RingContents(r', options.buflen) =
                 LastOf(ringIn', options.buflen - 1)
          /\ ~r'.held]_vars

\* TPIU input in running mode has gone round a ring of three cells, which
\* holds the last two bytes of the channel
C37_Witness ==
    /\ ringOp = "push"
    /\ options.useTPIU
    /\ ~r.singleShot
    /\ ~r.held
    /\ options.buflen = 3
    /\ Len(ringIn) >= 2 * options.buflen
    /\ RingContents(r, options.buflen) = LastOf(ringIn, 2)
    /\ ringIn[Len(ringIn)] # ringIn[Len(ringIn) - 2]

\* a pass whose read has returned zero or a negative value: the source was
\* readable and has delivered nothing
ReadNothing ==
    /\ sourceOpen
    /\ src' = src
    /\ ringOp' \in {"read", "read_held", "read_failed_held",
                    "single_shot_held", "dump", "stopped"}

\* C38: a read that returns zero or a negative value pushes nothing: the
\* pass writes no byte into the ring or the TPIU decoder and leaves rp, wp
\* and newTotalBytes as they were, and held too unless the pass dumps.
C38_FailedReadPushesNothing ==
    [][ReadNothing =>
          /\ r'.pmBuffer = r.pmBuffer
          /\ r'.rp = r.rp
          /\ r'.wp = r.wp
          /\ r'.newTotalBytes = r.newTotalBytes
          /\ t' = t
          /\ (r'.held = r.held \/ ringOp' = "dump")]_vars

\* C39: the ring is dumped through the ETM decoder at most once between
\* two releases, or between the start and the first release; a session that
\* has dumped is held, and while it is held no byte is pushed into the ring;
\* with a file as input held is never cleared.
C39_CaptureCycle ==
    [][/\ dumps' <= 1
       /\ ringOp' = "dump" => r'.held
       /\ (r.held /\ ringOp' # "release") =>
              /\ ringIn' = ringIn
              /\ r'.wp = r.wp
              /\ r'.rp = r.rp
              /\ r'.pmBuffer = r.pmBuffer
       /\ (options.file /\ r.held) => r'.held]_vars

\* C40: after itmfifoSetChannel(f, chan, name, format) the name read back
\* for chan is name and the format read back is format, none when none was
\* given, and the configuration of every other channel is as it was.
C40_ChannelRoundTrip ==
    [][chanOp'.op = "set" =>
          /\ GetChannelName(chans', chanOp'.chan) = chanOp'.n
          /\ GetChannelFormat(chans', chanOp'.chan) = chanOp'.s
          /\ \A c \in 0..NUM_CHANNELS :
                 c # chanOp'.chan => chans'[c] = chans[c]]_vars

=============================================================================
